---- MODULE Spec2Model ----
(***************************************************************************)
(* Model of the LangGraph travel assistant: the TravelState reducers, the *)
(* information extractor, the validation gate, the search executor with   *)
(* its cache, the graph of nodes and the message handler.                 *)
(*                                                                         *)
(* Conventions.  Python's None is a typed sentinel (NoCity, NoDate,       *)
(* NoPax, NoResults) because the fields have different types.  A calendar *)
(* date in ISO form is its day number; RawDate is a string that is not of *)
(* the form YYYY-MM-DD.  A user utterance is known by what the regular    *)
(* expressions of the extractor and of the conversation manager find in   *)
(* it (MessageTable); user_message holds its index, 0 the empty string.   *)
(***************************************************************************)
EXTENDS Integers, Sequences, FiniteSets, TLC

\* ------------------------------------------------------------------ bounds
MaxTurns == 3
MaxTicks == 3
MaxCalls == 3

\* ------------------------------------------------------------- sentinels
NoCity == "none"
NoDate == -1
RawDate == -2
BadIsoDate == -3
NoPax == -1
NoResults == "none"
NoMessage == 0

\* --------------------------------------------------------- program values
Today == 10
ClarificationCap == 3
MaxAgeMinutes == 60
CacheTtlMinutes == 60
TwoYearsDays == 730
OneYearDays == 365
MaxPassengers == 9
MinLocationLen == 2
CorrectionConfidence == 98
FastParseConfidence == 95
ContextConfidence == 90
OverrideThreshold == 90

TripTypes == {"undecided", "one_way", "round_trip"}
Payloads == {"p1", "p2"}
\* a provider response whose list of offers is empty: {"data": []}
EmptyPayload == "empty"
EmptyBot == [q |-> "", ack |-> {}]
ConfidenceFields == {"origin", "destination", "departure_date", "return_date", "passengers", "trip_type"}
NoConfidence == [f \in ConfidenceFields |-> 0]

\* str(x).upper() of the location strings the model uses
Upper(c) ==
    CASE c = "nyc" -> "NYC"
      [] c = "london" -> "LONDON"
      [] OTHER -> c

\* len(str(x).strip()) of the location strings the model uses
StrLen(c) ==
    CASE c = "X" -> 1
      [] c \in {"NYC", "nyc", "LON"} -> 3
      [] c \in {"LONDON", "london"} -> 6
      [] c = "PARIS" -> 5
      [] OTHER -> 4

\* ------------------------------------------------------------ TravelState
create_initial_state ==
    [origin |-> NoCity, destination |-> NoCity,
     departure_date |-> NoDate, return_date |-> NoDate, passengers |-> NoPax,
     trip_type |-> "undecided", trip_type_confirmed |-> FALSE,
     required_fields_complete |-> FALSE, field_confidence |-> NoConfidence,
     validation_errors |-> <<>>, ready_for_api |-> FALSE,
     conversation_history |-> <<>>, missing_fields |-> <<>>,
     clarification_attempts |-> 0, user_message |-> NoMessage,
     bot_response |-> EmptyBot,
     search_results |-> NoResults, search_cached |-> FALSE]

\* Python truthiness of the optional fields ("if state.get(f)")
HasCity(c) == c # NoCity
HasDate(d) == d # NoDate
HasPax(p) == p # NoPax /\ p # 0

\* An extraction update: the five travel fields, absent or None as sentinel.
NoUpdate ==
    [origin |-> NoCity, destination |-> NoCity, departure_date |-> NoDate,
     return_date |-> NoDate, passengers |-> NoPax]

\* an update that writes absent values through
add_extracted_info_with_none(current, update) ==
    [current EXCEPT
        !.origin = update.origin, !.destination = update.destination,
        !.departure_date = update.departure_date,
        !.return_date = update.return_date, !.passengers = update.passengers]

add_extracted_info(current, update) ==
    [current EXCEPT
        !.origin = IF update.origin # NoCity THEN update.origin ELSE @,
        !.destination = IF update.destination # NoCity THEN update.destination ELSE @,
        !.departure_date = IF update.departure_date # NoDate THEN update.departure_date ELSE @,
        !.return_date = IF update.return_date # NoDate THEN update.return_date ELSE @,
        !.passengers = IF update.passengers # NoPax THEN update.passengers ELSE @]

add_field_confidence(current, field, confidence) ==
    [current EXCEPT !.field_confidence[field] = confidence]

set_trip_type(current, trip_type, confirmed) ==
    [current EXCEPT !.trip_type = trip_type, !.trip_type_confirmed = confirmed]

\* a counter that goes up by two
increment_clarification_attempts_by_two(current) ==
    [current EXCEPT !.clarification_attempts = @ + 2]

increment_clarification_attempts(current) ==
    [current EXCEPT !.clarification_attempts = @ + 1]

set_validation_status(current, valid, errors) ==
    [current EXCEPT !.required_fields_complete = valid, !.validation_errors = errors]

set_api_ready(current, ready) ==
    [current EXCEPT !.ready_for_api = ready]

set_missing_fields(current, missing) ==
    [current EXCEPT !.missing_fields = missing]

set_search_results(current, results, cached) ==
    [current EXCEPT !.search_results = results, !.search_cached = cached]

Turn(user, bot) == [user |-> user, bot |-> bot]

\* an update that keeps the current pair only
update_conversation_latest_only(current, user_msg, bot_msg) ==
    [current EXCEPT !.user_message = user_msg,
                    !.bot_response = bot_msg,
                    !.conversation_history = <<Turn(user_msg, bot_msg)>>]

\* The previous turn is appended unless it is the last entry already; then
\* the current pair is appended.
update_conversation(current, user_msg, bot_msg) ==
    LET h == current.conversation_history
        prev == Turn(current.user_message, current.bot_response)
        addPrev == /\ current.user_message # NoMessage
                   /\ current.bot_response # EmptyBot
                   /\ (h = <<>> \/ h[Len(h)] # prev)
        h1 == IF addPrev THEN Append(h, prev) ELSE h
    IN  [current EXCEPT !.user_message = user_msg,
                        !.bot_response = bot_msg,
                        !.conversation_history = Append(h1, Turn(user_msg, bot_msg))]

has_required_fields(state) ==
    /\ state.origin # NoCity
    /\ state.destination # NoCity
    /\ state.departure_date # NoDate

has_trip_type_decision(state) ==
    state.trip_type \in {"one_way", "round_trip"} /\ state.trip_type_confirmed

\* ------------------------------------------------------------- validator
\* date_pattern.match(s): the YYYY-MM-DD shape; fromisoformat(s) succeeds
MatchesDatePattern(d) == d >= 0 \/ d = BadIsoDate
ParsesAsDate(d) == d >= 0

\* a sequence with e appended when cond holds
AddIf(errs, cond, e) == IF cond THEN Append(errs, e) ELSE errs

validate_required_fields(state) ==
    LET m1 == AddIf(<<>>, ~HasCity(state.origin), "origin")
        m2 == AddIf(m1, ~HasCity(state.destination), "destination")
    IN  AddIf(m2, ~HasDate(state.departure_date), "departure_date")

LocationFormatErrors(errs, c, short, long) ==
    IF ~HasCity(c) THEN errs
    ELSE IF StrLen(c) < MinLocationLen THEN Append(errs, short)
    ELSE IF StrLen(c) > 50 THEN Append(errs, long)
    ELSE errs

DateFormatErrors(errs, d, shape, past, invalid) ==
    IF ~HasDate(d) THEN errs
    ELSE IF ~MatchesDatePattern(d) THEN Append(errs, shape)
    ELSE IF ~ParsesAsDate(d) THEN Append(errs, invalid)
    ELSE IF d < Today THEN Append(errs, past)
    ELSE errs

validate_field_formats(state) ==
    LET e1 == LocationFormatErrors(<<>>, state.origin, "Origin too short", "Origin too long")
        e2 == LocationFormatErrors(e1, state.destination, "Destination too short", "Destination too long")
        e3 == DateFormatErrors(e2, state.departure_date,
                               "Departure date must be in YYYY-MM-DD format",
                               "Departure date cannot be in the past",
                               "Invalid departure date format")
    IN  DateFormatErrors(e3, state.return_date,
                         "Return date must be in YYYY-MM-DD format",
                         "Return date cannot be in the past",
                         "Invalid return date format")

\* the business rules with a strict comparison of the two dates
validate_business_rules_strict(state) ==
    LET dep == state.departure_date
        ret == state.return_date
        both == HasDate(dep) /\ HasDate(ret) /\ ParsesAsDate(dep) /\ ParsesAsDate(ret)
        e1 == AddIf(<<>>, /\ HasCity(state.origin) /\ HasCity(state.destination)
                          /\ Upper(state.origin) = Upper(state.destination),
                    "Origin and destination cannot be the same")
        e2 == AddIf(e1, both /\ ret < dep, "Return date must be after departure date")
        e3 == AddIf(e2, both /\ ret - dep > OneYearDays, "Trip duration cannot exceed 1 year")
    IN  AddIf(e3, HasDate(dep) /\ ParsesAsDate(dep) /\ dep > Today + TwoYearsDays,
              "Departure date cannot be more than 2 years in the future")

validate_business_rules(state) ==
    LET dep == state.departure_date
        ret == state.return_date
        both == HasDate(dep) /\ HasDate(ret) /\ ParsesAsDate(dep) /\ ParsesAsDate(ret)
        e1 == AddIf(<<>>, /\ HasCity(state.origin) /\ HasCity(state.destination)
                          /\ Upper(state.origin) = Upper(state.destination),
                    "Origin and destination cannot be the same")
        e2 == AddIf(e1, both /\ ret <= dep, "Return date must be after departure date")
        e3 == AddIf(e2, both /\ ret - dep > OneYearDays, "Trip duration cannot exceed 1 year")
    IN  AddIf(e3, HasDate(dep) /\ ParsesAsDate(dep) /\ dep > Today + TwoYearsDays,
              "Departure date cannot be more than 2 years in the future")

\* the trip-type rules with the return-date checks made only for a
\* confirmed trip type
validate_trip_type_logic_confirmed_only(state) ==
    IF ~state.trip_type_confirmed THEN <<"Trip type not confirmed">>
    ELSE IF state.trip_type \notin {"one_way", "round_trip"}
         THEN <<"Trip type must be 'one_way' or 'round_trip'">>
         ELSE LET e2 == AddIf(<<>>, state.trip_type = "round_trip" /\ ~HasDate(state.return_date),
                              "Round trip must have return date")
              IN  AddIf(e2, state.trip_type = "one_way" /\ HasDate(state.return_date),
                        "One-way trip should not have return date")

validate_trip_type_logic(state) ==
    LET e1 == IF ~state.trip_type_confirmed THEN <<"Trip type not confirmed">>
              ELSE IF state.trip_type \notin {"one_way", "round_trip"}
                   THEN <<"Trip type must be 'one_way' or 'round_trip'">>
                   ELSE <<>>
        e2 == AddIf(e1, state.trip_type = "round_trip" /\ ~HasDate(state.return_date),
                    "Round trip must have return date")
    IN  AddIf(e2, state.trip_type = "one_way" /\ HasDate(state.return_date),
              "One-way trip should not have return date")

validate_passenger_count(state) ==
    IF state.passengers = NoPax THEN <<"Passenger count is required">>
    ELSE IF state.passengers < 1 THEN <<"Must have at least 1 passenger">>
    ELSE IF state.passengers > MaxPassengers THEN <<"Cannot book more than 9 passengers">>
    ELSE <<>>

\* a readiness rule that does not look at validation_errors
ready_ignoring_errors(missing_required, validation_errors, state) ==
    Len(missing_required) = 0 /\ has_trip_type_decision(state)

\* lines 56-58: is_valid and has_trip_type_decision(state)
ReadyForApi(missing_required, validation_errors, state) ==
    /\ Len(missing_required) = 0 /\ Len(validation_errors) = 0
    /\ has_trip_type_decision(state)

validate(state) ==
    LET missing_required == validate_required_fields(state)
        validation_errors == validate_field_formats(state)
                             \o validate_business_rules(state)
                             \o validate_trip_type_logic(state)
                             \o validate_passenger_count(state)
        is_valid == Len(missing_required) = 0 /\ Len(validation_errors) = 0
    IN  [is_valid |-> is_valid,
         missing_required |-> missing_required,
         validation_errors |-> validation_errors,
         ready_for_api |-> ReadyForApi(missing_required, validation_errors, state)]

\* ------------------------------------------------------------- utterances
\* What the patterns find in an utterance.  greeting/confirmation: the
\* conversation manager's whole-message patterns.  from_o/from_d, fast_date,
\* pax: the fast parse (its date is the raw matched text, never ISO).  city:
\* the utterance as a whole has the shape of a city name (one to three
\* words of letters, the first of three letters or more).  c_*: the
\* correction patterns; c_date and c_ret are what to_iso_date makes of the
\* matched text (NoDate when it returns "").
Plain ==
    [greeting |-> FALSE, confirmation |-> FALSE,
     from_o |-> NoCity, from_d |-> NoCity, fast_date |-> FALSE, pax |-> NoPax,
     city |-> NoCity,
     c_date |-> NoDate, c_dest |-> NoCity, c_orig |-> NoCity, c_pax |-> NoPax,
     c_ret |-> NoDate, c_oneway |-> FALSE, c_round |-> FALSE]

MessageTable ==
    << \* 1 "hello"
       [Plain EXCEPT !.greeting = TRUE, !.city = "HELLO"],
       \* 2 "ok"
       [Plain EXCEPT !.confirmation = TRUE],
       \* 3 "from NYC to London"
       [Plain EXCEPT !.from_o = "NYC", !.from_d = "LONDON"],
       \* 4 "from London to NYC on March 15 one way"
       [Plain EXCEPT !.from_o = "LONDON", !.from_d = "NYC", !.fast_date = TRUE,
                     !.c_date = Today + 5, !.c_oneway = TRUE],
       \* 5 "from NYC to London on March 15 one way"
       [Plain EXCEPT !.from_o = "NYC", !.from_d = "LONDON", !.fast_date = TRUE,
                     !.c_date = Today + 5, !.c_oneway = TRUE],
       \* 6 "Paris"
       [Plain EXCEPT !.city = "PARIS"],
       \* 7 "for 2 people" (to_iso_date finds no date in "for 2")
       [Plain EXCEPT !.fast_date = TRUE, !.pax = 2],
       \* 8 "change destination to NYC"
       [Plain EXCEPT !.c_dest = "NYC"],
       \* 9 "need return on March 20"
       [Plain EXCEPT !.fast_date = TRUE, !.c_date = Today + 10,
                     !.c_ret = Today + 10, !.c_round = TRUE],
       \* 10 "thanks"
       [Plain EXCEPT !.city = "THANKS"],
       \* 11 "one-way please"
       [Plain EXCEPT !.c_oneway = TRUE] >>

MessageIds == 1..Len(MessageTable)
Msg(id) == MessageTable[id]

\* ------------------------------------------------------------- extractor
\* the bot reply holds "flying from" / a phrase asking for the destination
HasFlyingFrom(bot) ==
    "origin" \in bot.ack \/ bot.q \in {"ask_origin", "ask_origin_ctx", "ask_destination_ctx"}
HasDestPhrase(bot) ==
    bot.q \in {"greeting", "ask_destination", "ask_destination_ctx", "err_same"}

\* the bot message of the most recent history entry that has one
RECURSIVE LastBotFrom(_, _)
LastBotFrom(h, i) ==
    IF i = 0 THEN EmptyBot
    ELSE IF h[i].bot # EmptyBot THEN h[i].bot
    ELSE LastBotFrom(h, i - 1)
LastBotMessage(state) ==
    LastBotFrom(state.conversation_history, Len(state.conversation_history))

NoFields == [keys |-> {}, origin |-> NoCity, destination |-> NoCity,
             departure_date |-> NoDate, return_date |-> NoDate,
             passengers |-> NoPax, trip_type |-> "undecided"]

\* forbidden_words (compared in lower case)
ForbiddenWords ==
    {"HELLO", "HI", "HEY", "GOOD", "MORNING", "AFTERNOON", "EVENING", "THANKS",
     "THANK", "YOU", "PLEASE", "YES", "NO", "OKAY", "OK", "SURE", "GREAT",
     "PERFECT", "EXCELLENT", "NICE"}

\* a context extraction that takes any word after any reply as the destination
context_extraction_any_reply(m, state) ==
    IF m.city = NoCity \/ HasCity(state.destination) THEN NoFields
    ELSE [NoFields EXCEPT !.keys = {"destination"}, !.destination = Upper(m.city)]

\* the field a bare city name is mapped to, NoCity-valued when none
try_conservative_context_extraction(m, state) ==
    LET bot == LastBotMessage(state)
        toOrigin == HasFlyingFrom(bot) /\ ~HasCity(state.origin)
        toDest == ~toOrigin /\ HasDestPhrase(bot) /\ ~HasCity(state.destination)
    IN  IF m.city = NoCity \/ m.city \in ForbiddenWords \/ bot = EmptyBot THEN NoFields
        ELSE IF toOrigin
             THEN IF HasCity(state.destination) /\ Upper(m.city) = Upper(state.destination)
                  THEN NoFields
                  ELSE [NoFields EXCEPT !.keys = {"origin"}, !.origin = Upper(m.city)]
        ELSE IF toDest
             THEN IF HasCity(state.origin) /\ Upper(m.city) = Upper(state.origin)
                  THEN NoFields
                  ELSE [NoFields EXCEPT !.keys = {"destination"}, !.destination = Upper(m.city)]
        ELSE NoFields

\* [fields, confidence]; fields.keys = {} is the None result
try_fast_parse(m, state) ==
    LET k == (IF m.from_o # NoCity THEN {"origin", "destination"} ELSE {})
             \cup (IF m.fast_date THEN {"departure_date"} ELSE {})
             \cup (IF m.pax # NoPax THEN {"passengers"} ELSE {})
        direct == [NoFields EXCEPT !.keys = k,
                                   !.origin = m.from_o, !.destination = m.from_d,
                                   !.departure_date = IF m.fast_date THEN RawDate ELSE NoDate,
                                   !.passengers = m.pax]
        ctx == try_conservative_context_extraction(m, state)
    IN  IF k # {} THEN [fields |-> direct, confidence |-> FastParseConfidence]
        ELSE IF ctx.keys # {} THEN [fields |-> ctx, confidence |-> ContextConfidence]
        ELSE [fields |-> NoFields, confidence |-> FastParseConfidence]

detect_corrections(m, state) ==
    LET paxOk == m.c_pax # NoPax /\ m.c_pax >= 1 /\ m.c_pax <= MaxPassengers
        k == (IF m.c_date # NoDate THEN {"departure_date"} ELSE {})
             \cup (IF m.c_dest # NoCity THEN {"destination"} ELSE {})
             \cup (IF m.c_orig # NoCity THEN {"origin"} ELSE {})
             \cup (IF paxOk THEN {"passengers"} ELSE {})
             \cup (IF m.c_ret # NoDate \/ m.c_oneway THEN {"return_date"} ELSE {})
             \cup (IF m.c_ret # NoDate \/ m.c_oneway \/ m.c_round THEN {"trip_type"} ELSE {})
    IN  [keys |-> k,
         origin |-> m.c_orig, destination |-> m.c_dest,
         departure_date |-> m.c_date,
         return_date |-> IF m.c_oneway THEN NoDate ELSE m.c_ret,
         passengers |-> IF paxOk THEN m.c_pax ELSE NoPax,
         trip_type |-> IF m.c_round THEN "round_trip"
                       ELSE IF m.c_oneway THEN "one_way"
                       ELSE IF m.c_ret # NoDate THEN "round_trip"
                       ELSE "undecided"]

\* _try_llm_extraction: disabled, it answers None whatever the message
try_llm_extraction(m, state) == [fields |-> NoFields, confidence |-> 0]

\* one "for field, value in src.items(): if field not in extracted_fields"
\* loop of _combine_results: acc is [fields, conf]
Fill(acc, src, confidence) ==
    LET fresh == src.keys \ acc.fields.keys
    IN  [fields |-> [f \in DOMAIN acc.fields |->
                        IF f = "keys" THEN acc.fields.keys \cup src.keys
                        ELSE IF f \in fresh THEN src[f] ELSE acc.fields[f]],
         conf |-> [f \in ConfidenceFields |->
                        IF f \in fresh THEN confidence ELSE acc.conf[f]]]

NothingExtracted == [fields |-> NoFields, conf |-> NoConfidence]

\* a merge that lets the fast parse go before the corrections
combine_results_fast_first(fast_result, llm_result, corrections) ==
    LET a1 == Fill(NothingExtracted, fast_result.fields, fast_result.confidence)
        a2 == Fill(a1, corrections, CorrectionConfidence)
        a3 == Fill(a2, llm_result.fields, llm_result.confidence)
    IN  [extracted_fields |-> a3.fields, field_confidence |-> a3.conf]

\* _combine_results: corrections, then the fast parse, then the LLM result;
\* a None result is one with no keys
combine_results(fast_result, llm_result, corrections) ==
    LET a1 == Fill(NothingExtracted, corrections, CorrectionConfidence)
        a2 == Fill(a1, fast_result.fields, fast_result.confidence)
        a3 == Fill(a2, llm_result.fields, llm_result.confidence)
    IN  [extracted_fields |-> a3.fields, field_confidence |-> a3.conf]

\* InformationExtractorTool._run
extract(message, state) ==
    combine_results(try_fast_parse(Msg(message), state),
                    try_llm_extraction(Msg(message), state),
                    detect_corrections(Msg(message), state))

\* ---------------------------------------------------- conversation manager
Bot(q) == [q |-> q, ack |-> {}]

get_missing_critical_info(state) == validate_required_fields(state)

generate_missing_info_question_text(state, missing_fields) ==
    IF missing_fields = <<>> THEN "have_all_info"
    ELSE LET primary == missing_fields[1]
         IN  IF primary = "origin" /\ HasCity(state.destination) THEN "ask_origin_ctx"
             ELSE IF primary = "destination" /\ HasCity(state.origin) THEN "ask_destination_ctx"
             ELSE IF primary = "departure_date" /\ HasCity(state.origin) /\ HasCity(state.destination)
                  THEN "ask_date_ctx"
             ELSE IF primary = "departure_date" THEN "ask_date"
             ELSE IF primary = "origin" THEN "ask_origin"
             ELSE "ask_destination"

\* passengers > 1 raises on None; _generate_response answers with its fallback
generate_final_confirmation(state) ==
    IF state.passengers = NoPax THEN Bot("fallback_tell_me_more") ELSE Bot("final_confirmation")

generate_extraction_acknowledgment(state, extracted) ==
    LET ack == {f \in {"origin", "destination"} : f \in extracted.keys /\ HasCity(extracted[f])}
               \cup (IF "departure_date" \in extracted.keys /\ HasDate(extracted.departure_date)
                     THEN {"departure_date"} ELSE {})
               \cup (IF "passengers" \in extracted.keys /\ HasPax(extracted.passengers)
                        /\ extracted.passengers > 1
                     THEN {"passengers"} ELSE {})
        missing == get_missing_critical_info(state)
    IN  IF ack # {} /\ missing # <<>>
        THEN [q |-> generate_missing_info_question_text(state, missing), ack |-> ack]
        ELSE IF ack # {}
        THEN IF ~has_trip_type_decision(state)
             THEN [q |-> "ask_trip_type", ack |-> ack]
             ELSE generate_final_confirmation(state)
        ELSE Bot(generate_missing_info_question_text(
                    state, IF missing # <<>> THEN missing
                           ELSE <<"origin", "destination", "departure_date">>))

\* ConversationManagerTool._run
conversation_reply(state, extracted) ==
    LET m == Msg(state.user_message)
        missing == get_missing_critical_info(state)
    IN  IF m.greeting THEN Bot("greeting")
        ELSE IF m.confirmation
        THEN IF has_required_fields(state) /\ has_trip_type_decision(state)
             THEN Bot("search_now")
             ELSE Bot(generate_missing_info_question_text(state, missing))
        ELSE IF extracted.keys # {} THEN generate_extraction_acknowledgment(state, extracted)
        ELSE IF missing # <<>> THEN Bot(generate_missing_info_question_text(state, missing))
        ELSE IF ~has_trip_type_decision(state) THEN Bot("ask_trip_type")
        ELSE generate_final_confirmation(state)

\* ------------------------------------------------------------ collect_info
RECURSIVE ApplyConfidence(_, _, _)
ApplyConfidence(state, conf, fields) ==
    IF fields = {} THEN state
    ELSE LET f == CHOOSE x \in fields : TRUE
         IN  ApplyConfidence(add_field_confidence(state, f, conf[f]), conf, fields \ {f})

FieldsOf(extracted) ==
    [origin |-> extracted.origin, destination |-> extracted.destination,
     departure_date |-> extracted.departure_date, return_date |-> extracted.return_date,
     passengers |-> extracted.passengers]

\* an update whose inference from a return date leaves the trip type unconfirmed
update_state_with_extraction_unconfirmed(state, result) ==
    LET x == result.extracted_fields
        s1 == add_extracted_info(state, FieldsOf(x))
        s2 == ApplyConfidence(s1, result.field_confidence, x.keys)
        s3 == IF "trip_type" \in x.keys
              THEN IF x.trip_type \in {"one_way", "round_trip"}
                   THEN set_trip_type(s2, x.trip_type, TRUE) ELSE s2
              ELSE IF "return_date" \in x.keys /\ HasDate(x.return_date)
                   THEN set_trip_type(s2, "round_trip", FALSE) ELSE s2
        s4 == IF ~HasPax(s3.passengers)
              THEN add_extracted_info(s3, [NoUpdate EXCEPT !.passengers = 1]) ELSE s3
    IN  IF x.keys = {} THEN state ELSE s4

update_state_with_extraction(state, result) ==
    LET x == result.extracted_fields
        s1 == add_extracted_info(state, FieldsOf(x))
        s2 == ApplyConfidence(s1, result.field_confidence, x.keys)
        s3 == IF "trip_type" \in x.keys
              THEN IF x.trip_type \in {"one_way", "round_trip"}
                   THEN set_trip_type(s2, x.trip_type, TRUE) ELSE s2
              ELSE IF "return_date" \in x.keys /\ HasDate(x.return_date)
                   THEN set_trip_type(s2, "round_trip", TRUE) ELSE s2
        s4 == IF ~HasPax(s3.passengers)
              THEN add_extracted_info(s3, [NoUpdate EXCEPT !.passengers = 1]) ELSE s3
    IN  IF x.keys = {} THEN state ELSE s4

\* CollectInfoNode.__call__ after _extract_information answered result
collect_info_after(state, result) ==
    LET updated_state == update_state_with_extraction(state, result)
        action == conversation_reply(updated_state, result.extracted_fields)
        final_state == update_conversation(updated_state, state.user_message, action)
    IN  set_missing_fields(final_state, validate_required_fields(final_state))

\* CollectInfoNode.__call__
collect_info(state) == collect_info_after(state, extract(state.user_message, state))

\* the empty ExtractionResult of _extract_information's except clause
ExtractionFailed == [extracted_fields |-> NoFields, field_confidence |-> NoConfidence]

\* _extract_information without its except clause
extract_information_unguarded(state, extractor_raises) ==
    IF extractor_raises
    THEN [result |-> ExtractionFailed, propagated |-> TRUE]
    ELSE [result |-> extract(state.user_message, state), propagated |-> FALSE]

\* CollectInfoNode._extract_information, the extractor raising or not
extract_information(state, extractor_raises) ==
    IF extractor_raises
    THEN [result |-> ExtractionFailed, propagated |-> FALSE]
    ELSE [result |-> extract(state.user_message, state), propagated |-> FALSE]

\* ------------------------------------------------------- validate_complete
ErrorKeyword(e) ==
    IF e \in {"Departure date cannot be in the past", "Return date cannot be in the past"}
    THEN "err_past"
    ELSE IF e = "Origin and destination cannot be the same" THEN "err_same"
    ELSE IF e \in {"Return date must be after departure date",
                   "Return date must be in YYYY-MM-DD format",
                   "Invalid return date format",
                   "Round trip must have return date",
                   "One-way trip should not have return date"}
    THEN "err_return_date"
    ELSE IF e \in {"Trip type not confirmed", "Trip type must be 'one_way' or 'round_trip'"}
    THEN "err_trip_type"
    ELSE IF e \in {"Passenger count is required", "Must have at least 1 passenger",
                   "Cannot book more than 9 passengers"}
    THEN "err_passenger"
    ELSE "err_generic"

generate_error_response(errors) ==
    LET critical == SelectSeq(errors,
                        LAMBDA e : ErrorKeyword(e) \in {"err_past", "err_trip_type", "err_passenger"})
    IN  IF Len(errors) = 1 THEN ErrorKeyword(errors[1])
        ELSE IF critical # <<>> THEN ErrorKeyword(critical[1])
        ELSE "err_several"

generate_failure_response(result) ==
    IF result.missing_required # <<>> THEN "val_missing"
    ELSE IF result.validation_errors # <<>> THEN generate_error_response(result.validation_errors)
    ELSE "val_verify_details"

update_state_with_validation(state, result) ==
    set_missing_fields(
        set_api_ready(
            set_validation_status(state, result.is_valid, result.validation_errors),
            result.ready_for_api),
        result.missing_required)

\* ValidateCompleteNode.__call__
validate_complete(state) ==
    LET result == validate(state)
        updated_state == update_state_with_validation(state, result)
        response == IF result.ready_for_api THEN "validation_ok"
                    ELSE generate_failure_response(result)
    IN  update_conversation(updated_state, state.user_message, Bot(response))

\* ------------------------------------------------------------------ state
VARIABLES
    travel_state,     \* the TravelState the graph is working on
    pc,               \* the node about to run, "idle" between turns
    session,          \* the session store's entry of the user
    cache,            \* the flight cache in Redis: a set of entries, one per key
    now,              \* the clock, in minutes
    redis_available,  \* the ping at construction succeeded
    calls,            \* the provider calls made so far, in order
    turn,             \* handle_message calls started
    turn_start,       \* the state the current turn (or function) started from
    step,             \* what the last node step did
    reply,            \* the last reply handle_message returned
    fetched           \* what the last direct use of a function returned

vars == <<travel_state, pc, session, cache, now, redis_available, calls, turn,
          turn_start, step, reply, fetched>>

\* ------------------------------------------------------------ flight cache
\* RedisSessionStore.get_cached_search: the entry of the key, if not expired
get_cached_search(cch, key, t) ==
    IF ~redis_available THEN {}
    ELSE {e \in cch : e.key = key /\ t - e.written < e.ttl}

\* a cache write that leaves the key's earlier entry in place
cache_search_keep_old(cch, key, data, ttl, t) ==
    IF ~redis_available THEN cch
    ELSE cch \cup {[key |-> key, data |-> data, ttl |-> ttl, written |-> t]}

\* RedisSessionStore.cache_search (setex replaces the entry of the key)
cache_search(cch, key, data, ttl, t) ==
    IF ~redis_available THEN cch
    ELSE {e \in cch : e.key # key}
         \cup {[key |-> key, data |-> data, ttl |-> ttl, written |-> t]}

\* FlightCacheManager.cache_results: the payload wrapped with its metadata
cache_results(cch, key, results, t) ==
    cache_search(cch, key, [results |-> results, cached_at |-> t, ttl |-> CacheTtlMinutes],
                 CacheTtlMinutes, t)

is_cache_fresh(cached_data, t) == t - cached_data.cached_at < MaxAgeMinutes

\* FlightCacheManager.create_cache_key (the md5 of the joined parts)
create_cache_key(req) ==
    <<"md5", Upper(req.origin), Upper(req.destination), req.dep_date, req.ret_date, req.adults>>

\* ----------------------------------------------------------- search tool
resolve_airport_code(location) ==
    LET u == Upper(location)
    IN  IF StrLen(u) = 3 THEN u
        ELSE CASE u = "LONDON" -> "LHR"
               [] u = "PARIS" -> "CDG"
               [] OTHER -> u

\* a parameter extraction that accepts absent fields
extract_search_params_unchecked(state) ==
    [ok |-> TRUE,
     origin |-> state.origin, destination |-> state.destination,
     departure_date |-> state.departure_date, return_date |-> state.return_date,
     passengers |-> state.passengers]

\* a parameter extraction that passes the return date on for any trip type
extract_search_params_any_return(state) ==
    [ok |-> /\ HasCity(state.origin) /\ HasCity(state.destination)
            /\ HasDate(state.departure_date) /\ state.passengers # NoPax,
     origin |-> resolve_airport_code(state.origin),
     destination |-> resolve_airport_code(state.destination),
     departure_date |-> state.departure_date,
     return_date |-> state.return_date,
     passengers |-> state.passengers]

\* raises (ok = FALSE) on a missing required field and on int(None)
extract_search_params(state) ==
    [ok |-> /\ HasCity(state.origin) /\ HasCity(state.destination)
            /\ HasDate(state.departure_date) /\ state.passengers # NoPax,
     origin |-> resolve_airport_code(state.origin),
     destination |-> resolve_airport_code(state.destination),
     departure_date |-> state.departure_date,
     return_date |-> IF state.trip_type = "round_trip" THEN state.return_date ELSE NoDate,
     passengers |-> state.passengers]

\* AmadeusSearchTool._create_cache_key ("ONEWAY" for no return date)
tool_cache_key(params) ==
    <<"tool", params.origin, params.destination, params.departure_date,
      params.return_date, params.passengers>>

\* FlightCacheManager defines no get_cached_results: the call raises
\* AttributeError, which _check_cache catches and answers None
cache_manager_has_get_cached_results == FALSE

check_cache(cch, params, t) ==
    IF ~cache_manager_has_get_cached_results THEN NoResults
    ELSE LET hit == get_cached_search(cch, tool_cache_key(params), t)
         IN  IF hit = {} THEN NoResults ELSE (CHOOSE e \in hit : TRUE).data.results

Failure(error) == [success |-> FALSE, results |-> NoResults, cached |-> FALSE, error |-> error]

ToolOutcome(result, call, cch) == [result |-> result, call |-> call, cache |-> cch]

\* a search tool that does not look at the flag
ready_gate_open(state) == TRUE

\* AmadeusSearchTool.search line 46: the state's ready_for_api flag
ready_gate(state) == state.ready_for_api

\* str(e) of the exceptions the provider call raises, one for each keyword
\* test of the search node's error messages; "fail" holds no keyword
ProviderExceptions ==
    {"fail", "Network timeout", "Rate limit exceeded", "No flights found",
     "Invalid airport code", "Invalid date"}
Raises(outcome) == outcome \in ProviderExceptions

\* AmadeusSearchTool.search; outcome is what the provider does if called:
\* a payload, or the text of the exception it raises (the failure's error is
\* "Amadeus API search failed: " and that text)
tool_search(state, outcome, cch, t) ==
    LET params == extract_search_params(state)
        cachedResults == check_cache(cch, params, t)
        call == [origin |-> params.origin, destination |-> params.destination,
                 dep_date |-> params.departure_date, ret_date |-> params.return_date,
                 adults |-> params.passengers, ok |-> ~Raises(outcome)]
    IN  IF ~ready_gate(state) THEN ToolOutcome(Failure("search_blocked"), <<>>, cch)
        ELSE IF ~params.ok THEN ToolOutcome(Failure("parameter_extraction_failed"), <<>>, cch)
        ELSE IF cachedResults # NoResults
        THEN ToolOutcome([success |-> TRUE, results |-> cachedResults, cached |-> TRUE,
                          error |-> "none"], <<>>, cch)
        ELSE IF Raises(outcome)
        THEN ToolOutcome(Failure(outcome), <<call>>, cch)
        ELSE ToolOutcome([success |-> TRUE, results |-> outcome, cached |-> FALSE,
                          error |-> "none"], <<call>>,
                         cache_results(cch, tool_cache_key(params), outcome, t))

\* --------------------------------------------------------- search_flights
\* an error reply that repeats the error it was given
search_error_response_raw(error) == error

\* SearchFlightsNode._generate_error_response: the keyword tests on
\* error.lower(), in the order of the code
search_error_response(error) ==
    CASE error = "none" -> "search_trouble_retry"
      [] error = "Network timeout" -> "search_taking_longer"
      [] error = "Rate limit exceeded" -> "search_high_demand"
      [] error = "No flights found" -> "search_no_flights"
      [] error = "Invalid airport code" -> "search_airport_not_recognized"
      [] error = "Invalid date" -> "search_date_issue"
      [] OTHER -> "search_error"

\* SearchFlightsNode.__call__: [state, call, cache, ran, success]
search_flights(state, outcome, cch, t) ==
    IF ~state.ready_for_api
    THEN [state |-> update_conversation(increment_clarification_attempts(state),
                                        state.user_message, Bot("internal_error_search")),
          call |-> <<>>, cache |-> cch, result |-> Failure("not_run")]
    ELSE LET o == tool_search(state, outcome, cch, t)
             r == o.result
             updated == IF r.success
                        THEN update_conversation(
                                set_search_results(state, r.results, r.cached),
                                state.user_message,
                                Bot(IF r.cached THEN "found_cached" ELSE "found_fresh"))
                        ELSE update_conversation(state, state.user_message,
                                                 Bot(search_error_response(r.error)))
         IN  [state |-> updated, call |-> o.call, cache |-> o.cache, result |-> r]

\* _transform_amadeus_results: the offers of the response, {} when it has none
transform_amadeus_results(results) == IF results = EmptyPayload THEN {} ELSE {results}

\* a presentation that formats whatever the response holds
present_options_silent(state) ==
    update_conversation(state, state.user_message,
                        Bot(IF state.search_results = NoResults
                            THEN "internal_error_no_results" ELSE "results"))

\* PresentOptionsNode.__call__
present_options(state) ==
    update_conversation(state, state.user_message,
                        Bot(IF state.search_results = NoResults
                            THEN "internal_error_no_results"
                            ELSE IF transform_amadeus_results(state.search_results) = {}
                            THEN "no_flights_found" ELSE "results"))

\* -------------------------------------------------------------- routing
should_validate(state) ==
    IF has_required_fields(state) THEN "validate_complete" ELSE "needs_clarification"

\* a route that goes on to the search whatever the flag
should_search_always(state) == "search_flights"

should_search(state) ==
    IF state.ready_for_api THEN "search_flights" ELSE "needs_clarification"

should_present(state) ==
    IF state.search_results # NoResults THEN "present_options" ELSE "needs_clarification"

\* a loop that ends two attempts later
should_continue_clarification_later(state) ==
    IF state.clarification_attempts >= ClarificationCap + 2 THEN "end" ELSE "collect_info"

should_continue_clarification(state) ==
    IF state.clarification_attempts >= ClarificationCap THEN "end" ELSE "collect_info"

\* ------------------------------------------------------------ the handler
NoStep == [node |-> "none", called |-> FALSE, success |-> FALSE, cached |-> FALSE]
NodeStep(node) == [NoStep EXCEPT !.node = node]
NoSession == [has |-> FALSE, langgraph_state |-> create_initial_state]
NoFetch == [kind |-> "none"]

\* the calls of a step, stamped with the turn and the clock
Stamp(call, n, t) == [i \in 1..Len(call) |-> [args |-> call[i], turn |-> n, at |-> t]]

\* start_conversation
start_conversation(message) == [create_initial_state EXCEPT !.user_message = message]

\* a load that takes the flag back
get_or_create_travel_state_unready(session_data, message) ==
    IF session_data.has
    THEN [session_data.langgraph_state EXCEPT !.user_message = message,
                                              !.ready_for_api = FALSE]
    ELSE start_conversation(message)

\* LangGraphHandler._get_or_create_travel_state
get_or_create_travel_state(session_data, message) ==
    IF session_data.has
    THEN [session_data.langgraph_state EXCEPT !.user_message = message]
    ELSE start_conversation(message)

Init ==
    /\ travel_state = create_initial_state
    /\ pc = "idle"
    /\ session = NoSession
    /\ cache = {}
    /\ now = 0
    /\ redis_available \in BOOLEAN
    /\ calls = <<>>
    /\ turn = 0
    /\ turn_start = create_initial_state
    /\ step = NoStep
    /\ reply = EmptyBot
    /\ fetched = NoFetch

\* handle_message up to the graph's entry point
HandleMessage(message) ==
    /\ pc = "idle"
    /\ turn < MaxTurns
    /\ travel_state' = get_or_create_travel_state(session, message)
    /\ turn_start' = travel_state'
    /\ turn' = turn + 1
    /\ pc' = "collect_info"
    /\ step' = NoStep
    /\ UNCHANGED <<session, cache, now, redis_available, calls, reply, fetched>>

CollectInfo ==
    /\ pc = "collect_info"
    /\ travel_state' = collect_info(travel_state)
    /\ pc' = should_validate(travel_state')
    /\ step' = NodeStep("collect_info")
    /\ UNCHANGED <<session, cache, now, redis_available, calls, turn, turn_start, reply, fetched>>

ValidateComplete ==
    /\ pc = "validate_complete"
    /\ travel_state' = validate_complete(travel_state)
    /\ pc' = should_search(travel_state')
    /\ step' = NodeStep("validate_complete")
    /\ UNCHANGED <<session, cache, now, redis_available, calls, turn, turn_start, reply, fetched>>

SearchFlights(outcome) ==
    /\ pc = "search_flights"
    /\ LET o == search_flights(travel_state, outcome, cache, now)
       IN  /\ travel_state' = o.state
           /\ cache' = o.cache
           /\ calls' = calls \o Stamp(o.call, turn, now)
           /\ step' = [node |-> "search_flights", called |-> o.call # <<>>,
                       success |-> o.result.success, cached |-> o.result.cached]
    /\ pc' = should_present(travel_state')
    /\ UNCHANGED <<session, now, redis_available, turn, turn_start, reply, fetched>>

PresentOptions ==
    /\ pc = "present_options"
    /\ travel_state' = present_options(travel_state)
    /\ pc' = "end"
    /\ step' = NodeStep("present_options")
    /\ UNCHANGED <<session, cache, now, redis_available, calls, turn, turn_start, reply, fetched>>

NeedsClarification ==
    /\ pc = "needs_clarification"
    /\ travel_state' = increment_clarification_attempts(travel_state)
    /\ pc' = should_continue_clarification(travel_state')
    /\ step' = NodeStep("needs_clarification")
    /\ UNCHANGED <<session, cache, now, redis_available, calls, turn, turn_start, reply, fetched>>

\* handle_message after the graph returned: _save_travel_state and the reply
SaveAndReply ==
    /\ pc = "end"
    /\ session' = [has |-> TRUE, langgraph_state |-> travel_state]
    /\ reply' = travel_state.bot_response
    /\ pc' = "idle"
    /\ UNCHANGED <<travel_state, cache, now, redis_available, calls, turn, turn_start, step, fetched>>

Next ==
    \/ \E message \in MessageIds : HandleMessage(message)
    \/ CollectInfo
    \/ ValidateComplete
    \/ \E outcome \in Payloads \cup {EmptyPayload, "fail"} : SearchFlights(outcome)
    \/ PresentOptions
    \/ NeedsClarification
    \/ SaveAndReply

Spec == Init /\ [][Next]_vars

\* ------------------------------------------------------------ properties
CallsOfTurn(n) == {i \in 1..Len(calls) : calls[i].turn = n}
ProviderFailedThisTurn == \E i \in CallsOfTurn(turn) : ~calls[i].args.ok
TravelFields == {"origin", "destination", "departure_date", "return_date", "passengers"}
Captured(s, f) ==
    CASE f \in {"origin", "destination"} -> s[f] # NoCity
      [] f \in {"departure_date", "return_date"} -> s[f] # NoDate
      [] OTHER -> s[f] # NoPax

\* C2: within one turn the search provider is called at most once, also when
\* the call fails (no automatic re-issue in the same turn).
C2_AtMostOneCallPerTurn == Cardinality(CallsOfTurn(turn)) <= 1

\* C3: the conversation ends through the clarification cap only after 3
\* unresolved user turns and not earlier: a turn that ends at the cap is at
\* least the third one, and a turn raises clarification_attempts by at most
\* one.
C3_CapAfterThreeTurnsThenDone ==
    /\ (pc = "end" /\ step.node = "needs_clarification") => turn >= ClarificationCap
    /\ pc = "end" =>
            travel_state.clarification_attempts <= turn_start.clarification_attempts + 1

\* C4: when the provider call fails during a turn, clarification_attempts at
\* the end of the turn equals its value at the start of the turn.
C4_ProviderFailureKeepsAttempts ==
    (pc = "end" /\ ProviderFailedThisTurn)
        => travel_state.clarification_attempts = turn_start.clarification_attempts

\* C5: with the wired cache manager, two successive searches with the same
\* normalized key within the freshness window issue one provider call in
\* total: after a successful call whose result was cached, no second call
\* with the same key is made while the entry is fresh.
C5_SecondSearchServedFromCache ==
    \A i, j \in 1..Len(calls) :
        (/\ i < j /\ redis_available /\ calls[i].args.ok
         /\ calls[j].at - calls[i].at < MaxAgeMinutes
         /\ [calls[i].args EXCEPT !.ok = TRUE] = [calls[j].args EXCEPT !.ok = TRUE])
            => FALSE

\* C8: in every state after any node step (also the persisted one and the
\* one between collect_info and validate_complete), ready_for_api = TRUE
\* implies that the validator accepts the state's current field values.
C8_ReadyImpliesValidatorAccepts ==
    /\ travel_state.ready_for_api => validate(travel_state).ready_for_api
    /\ (session.has /\ session.langgraph_state.ready_for_api)
            => validate(session.langgraph_state).ready_for_api

\* C10: a travel field that already holds a value changes in a turn only if
\* a correction for that field (confidence >= 0.9) was detected in that turn.
C10_OverwriteOnlyByCorrection ==
    [][pc = "collect_info" =>
        \A f \in TravelFields :
            (Captured(travel_state, f) /\ travel_state'[f] # travel_state[f])
                => /\ f \in detect_corrections(Msg(travel_state.user_message), travel_state).keys
                   /\ CorrectionConfidence >= OverrideThreshold]_vars


\* ------------------------------------------- direct use of the functions
\* States built by hand and passed to the validator, to the search tool and
\* to the search node, outside the graph.
HandBuiltStates ==
    {[create_initial_state EXCEPT
        !.origin = o, !.destination = d, !.departure_date = dep,
        !.return_date = ret, !.passengers = pax, !.trip_type = tt,
        !.trip_type_confirmed = conf, !.ready_for_api = ready,
        !.search_results = res] :
        o \in {NoCity, "NYC", "nyc", "X"}, d \in {NoCity, "NYC", "LONDON"},
        dep \in {NoDate, RawDate, Today - 1, Today + 5},
        ret \in {NoDate, Today + 5, Today + 6},
        pax \in {NoPax, 0, 1, MaxPassengers + 1},
        tt \in TripTypes, conf \in BOOLEAN, ready \in BOOLEAN,
        res \in {NoResults, "p1"}}

InitFn ==
    /\ travel_state \in HandBuiltStates
    /\ turn_start = travel_state
    /\ pc = "fn_input"
    /\ session = NoSession
    /\ cache = {}
    /\ now = 0
    /\ redis_available = TRUE
    /\ calls = <<>>
    /\ turn = 0
    /\ step = NoStep
    /\ reply = EmptyBot
    /\ fetched = NoFetch

\* TravelInfoValidator.validate(state)
ApplyValidate ==
    /\ pc = "fn_input"
    /\ fetched' = [kind |-> "validate", validation |-> validate(travel_state)]
    /\ pc' = "fn_done"
    /\ UNCHANGED <<travel_state, session, cache, now, redis_available, calls, turn,
                   turn_start, step, reply>>

\* AmadeusSearchTool.search(state): the state is read, not changed
ApplySearchTool(outcome) ==
    /\ pc = "fn_input"
    /\ LET o == tool_search(travel_state, outcome, cache, now)
       IN  /\ fetched' = [kind |-> "tool", result |-> o.result]
           /\ calls' = calls \o Stamp(o.call, turn, now)
           /\ cache' = o.cache
    /\ pc' = "fn_done"
    /\ UNCHANGED <<travel_state, session, now, redis_available, turn, turn_start,
                   step, reply>>

\* SearchFlightsNode.__call__(state)
ApplySearchNode(outcome) ==
    /\ pc = "fn_input"
    /\ LET o == search_flights(travel_state, outcome, cache, now)
       IN  /\ travel_state' = o.state
           /\ fetched' = [kind |-> "node", result |-> o.result]
           /\ calls' = calls \o Stamp(o.call, turn, now)
           /\ cache' = o.cache
    /\ pc' = "fn_done"
    /\ UNCHANGED <<session, now, redis_available, turn, turn_start, step, reply>>

\* ValidateCompleteNode.__call__(state)
ApplyValidateNode ==
    /\ pc = "fn_input"
    /\ travel_state' = validate_complete(travel_state)
    /\ fetched' = [kind |-> "validate_node", validation |-> validate(travel_state)]
    /\ pc' = "fn_done"
    /\ UNCHANGED <<session, cache, now, redis_available, calls, turn, turn_start,
                   step, reply>>

NextFn ==
    \/ ApplyValidate
    \/ ApplyValidateNode
    \/ \E outcome \in Payloads \cup ProviderExceptions : ApplySearchTool(outcome)
    \/ \E outcome \in Payloads \cup ProviderExceptions : ApplySearchNode(outcome)

SpecFn == InitFn /\ [][NextFn]_vars

SearchInvoked == fetched.kind \in {"tool", "node"}

\* C1: the search tool or the search node invoked on a state whose
\* ready_for_api is false returns without a provider call, without success
\* and without setting search_results.
C1_NoCallWhenNotReady ==
    (SearchInvoked /\ ~turn_start.ready_for_api)
        => /\ calls = <<>>
           /\ ~fetched.result.success
           /\ travel_state.search_results = turn_start.search_results

\* a state with everything a search needs but the flag, given to the tool
C1_Witness ==
    /\ fetched.kind = "tool" /\ ~turn_start.ready_for_api
    /\ extract_search_params(turn_start).ok
    /\ validate(turn_start).ready_for_api
    /\ calls = <<>>

\* C7: validate(state) answers ready_for_api = TRUE exactly when
\* missing_required is empty, validation_errors is empty, and trip_type is
\* one_way or round_trip with trip_type_confirmed.
C7_ReadyIffCompleteValidConfirmed ==
    fetched.kind = "validate" =>
        (fetched.validation.ready_for_api <=>
            /\ fetched.validation.missing_required = <<>>
            /\ fetched.validation.validation_errors = <<>>
            /\ turn_start.trip_type \in {"one_way", "round_trip"}
            /\ turn_start.trip_type_confirmed)

\* the validator accepted a state
C7_Witness == fetched.kind = "validate" /\ fetched.validation.ready_for_api

\* C9 as stated: whenever validate(state) would answer ready_for_api =
\* FALSE, the executor given that state makes no provider call, whatever
\* the state's own flag says.
C9_ExecutorRejectsWhatValidatorRejects ==
    (SearchInvoked /\ ~validate(turn_start).ready_for_api) => calls = <<>>

\* C9 amended: the executor calls the provider only for a state whose
\* ready_for_api flag is true, whose origin, destination and departure_date
\* are present and whose passengers is not None; it does not run the
\* validator itself.
C9_CallOnlyWithFlagAndParameters ==
    (SearchInvoked /\ calls # <<>>)
        => /\ turn_start.ready_for_api
           /\ has_required_fields(turn_start)
           /\ turn_start.passengers # NoPax

\* the flag is set by hand on a state without its required fields
C9_Witness ==
    /\ fetched.kind = "tool" /\ turn_start.ready_for_api
    /\ ~has_required_fields(turn_start)
    /\ fetched.result.error = "parameter_extraction_failed"
    /\ calls = <<>>

\* ------------------------------------------ FlightCacheManager on its own
TimeStep == 30
Requests ==
    {[origin |-> "NYC", destination |-> d, dep_date |-> Today + 5,
      ret_date |-> NoDate, adults |-> 1] : d \in {"LON", "PAR"}}

\* what get_cached_or_fetch hands back: the provider's payload itself, or
\* the dict cache_results stored around it
Raw(p) == [payload |-> p]

\* FlightCacheManager.get_cached_or_fetch; outcome is what the provider
\* does if called
get_cached_or_fetch(req, outcome, cch, t) ==
    LET cache_key == create_cache_key(req)
        hit == get_cached_search(cch, cache_key, t)
        cached == (CHOOSE e \in hit : TRUE).data
        call == [origin |-> req.origin, destination |-> req.destination,
                 dep_date |-> req.dep_date, ret_date |-> req.ret_date,
                 adults |-> req.adults, ok |-> outcome # "fail"]
    IN  IF hit # {} /\ is_cache_fresh(cached, t)
        THEN [value |-> cached, raised |-> FALSE, call |-> <<>>, cache |-> cch]
        ELSE IF outcome # "fail"
        THEN [value |-> Raw(outcome), raised |-> FALSE, call |-> <<call>>,
              cache |-> cache_results(cch, cache_key, outcome, t)]
        ELSE IF hit # {}
        THEN [value |-> cached, raised |-> FALSE, call |-> <<call>>, cache |-> cch]
        ELSE [value |-> Raw(NoResults), raised |-> TRUE, call |-> <<call>>, cache |-> cch]

InitCache ==
    /\ travel_state = create_initial_state
    /\ turn_start = create_initial_state
    /\ pc = "cache_idle"
    /\ session = NoSession
    /\ cache = {}
    /\ now = 0
    /\ redis_available \in BOOLEAN
    /\ calls = <<>>
    /\ turn = 0
    /\ step = NoStep
    /\ reply = EmptyBot
    /\ fetched = NoFetch

GetCachedOrFetch(req, outcome) ==
    /\ Len(calls) < MaxCalls
    /\ LET o == get_cached_or_fetch(req, outcome, cache, now)
       IN  /\ fetched' = [kind |-> "cache", req |-> req, value |-> o.value,
                          raised |-> o.raised]
           /\ calls' = calls \o Stamp(o.call, turn, now)
           /\ cache' = o.cache
    /\ UNCHANGED <<travel_state, pc, session, now, redis_available, turn, turn_start,
                   step, reply>>

\* the clock advances
Tick ==
    /\ now < MaxTicks * TimeStep
    /\ now' = now + TimeStep
    /\ UNCHANGED <<travel_state, pc, session, cache, redis_available, calls, turn,
                   turn_start, step, reply, fetched>>

NextCache ==
    \/ \E req \in Requests, outcome \in Payloads \cup {"fail"} : GetCachedOrFetch(req, outcome)
    \/ Tick

SpecCache == InitCache /\ [][NextCache]_vars

\* C6: a request made while the entry written for its key is within the
\* freshness window is answered without a provider call and with exactly
\* the payload the provider returned when the entry was written; a request
\* with no entry, or with one beyond the window, calls the provider.
C6_FreshEntryReturnedAsPayload ==
    [][now' = now =>
        LET written == {e \in cache : e.key = create_cache_key(fetched'.req)}
            fresh == {e \in written : now - e.data.cached_at < MaxAgeMinutes}
        IN  /\ \A e \in fresh : calls' = calls /\ fetched'.value = Raw(e.data.results)
            /\ fresh = {} => Len(calls') = Len(calls) + 1]_vars


\* ------------------------------------------------- extraction and merge
\* C11: after a turn in which a flip to one-way is detected, the state has
\* trip_type = one_way and no return_date, also when a return_date was
\* captured in an earlier turn.
C11_OneWayFlipClearsReturnDate ==
    (pc = "end" /\ Msg(travel_state.user_message).c_oneway)
        => /\ travel_state.trip_type = "one_way"
           /\ travel_state.return_date = NoDate


\* --------------------------------------- the extraction steps on their own
\* States and extraction results built by hand, as the unit tests of the
\* collect_info node build them.
ExtractStates ==
    {[create_initial_state EXCEPT
        !.origin = o, !.destination = d, !.return_date = ret,
        !.trip_type = tt[1], !.trip_type_confirmed = tt[2], !.passengers = pax,
        !.conversation_history = h] :
        o \in {NoCity, "NYC"}, d \in {NoCity, "LONDON"},
        ret \in {NoDate, Today + 6},
        tt \in {<<"undecided", FALSE>>, <<"one_way", TRUE>>, <<"round_trip", TRUE>>},
        pax \in {NoPax, 2},
        h \in {<<>>} \cup {<<Turn(10, Bot(q))>> :
                    q \in {"greeting", "ask_origin", "ask_destination", "ask_date"}}}

HandCorrections ==
    {NoFields,
     [NoFields EXCEPT !.keys = {"destination"}, !.destination = "PARIS"],
     [NoFields EXCEPT !.keys = {"return_date", "trip_type"}, !.trip_type = "one_way"],
     [NoFields EXCEPT !.keys = {"departure_date"}, !.departure_date = Today + 5]}

HandFastResults ==
    {[fields |-> NoFields, confidence |-> FastParseConfidence],
     [fields |-> [NoFields EXCEPT !.keys = {"origin", "destination"},
                                  !.origin = "NYC", !.destination = "LONDON"],
      confidence |-> FastParseConfidence],
     [fields |-> [NoFields EXCEPT !.keys = {"departure_date", "passengers"},
                                  !.departure_date = RawDate, !.passengers = 2],
      confidence |-> FastParseConfidence],
     [fields |-> [NoFields EXCEPT !.keys = {"destination"}, !.destination = "ROME"],
      confidence |-> ContextConfidence]}

\* what an enabled LLM pass could answer
HandLlmResults ==
    {[fields |-> NoFields, confidence |-> 0],
     [fields |-> [NoFields EXCEPT !.keys = {"departure_date", "return_date"},
                                  !.departure_date = Today + 4, !.return_date = Today + 9],
      confidence |-> 80],
     [fields |-> [NoFields EXCEPT !.keys = {"origin", "destination", "trip_type"},
                                  !.origin = "BOS", !.destination = "PARIS",
                                  !.trip_type = "round_trip"],
      confidence |-> 80]}

InitExtract ==
    /\ travel_state \in ExtractStates
    /\ turn_start = travel_state
    /\ pc = "fn_input"
    /\ session = NoSession
    /\ cache = {}
    /\ now = 0
    /\ redis_available = TRUE
    /\ calls = <<>>
    /\ turn = 0
    /\ step = NoStep
    /\ reply = EmptyBot
    /\ fetched = NoFetch

\* InformationExtractorTool._combine_results(fast_result, llm_result, corrections, state)
ApplyCombine(fast_result, llm_result, corrections) ==
    /\ pc = "fn_input"
    /\ fetched' = [kind |-> "combine", fast_result |-> fast_result,
                   llm_result |-> llm_result, corrections |-> corrections,
                   result |-> combine_results(fast_result, llm_result, corrections)]
    /\ pc' = "fn_done"
    /\ UNCHANGED <<travel_state, session, cache, now, redis_available, calls, turn,
                   turn_start, step, reply>>

\* CollectInfoNode._update_state_with_extraction(state, result)
ApplyUpdateState(fast_result, llm_result, corrections) ==
    /\ pc = "fn_input"
    /\ LET result == combine_results(fast_result, llm_result, corrections)
       IN  /\ travel_state' = update_state_with_extraction(travel_state, result)
           /\ fetched' = [kind |-> "update", result |-> result]
    /\ pc' = "fn_done"
    /\ UNCHANGED <<session, cache, now, redis_available, calls, turn, turn_start,
                   step, reply>>

NextExtract ==
    \/ \E f \in HandFastResults, l \in HandLlmResults, c \in HandCorrections :
            ApplyCombine(f, l, c)
    \/ \E f \in HandFastResults, l \in HandLlmResults, c \in HandCorrections :
            ApplyUpdateState(f, l, c)

SpecExtract == InitExtract /\ [][NextExtract]_vars

\* C12: in the merge the precedence is correction > fast parse > LLM: each
\* field carries the value and the confidence of the highest-ranked source
\* that has it, and a field no source has is not extracted.
C12_MergePrecedence ==
    fetched.kind = "combine" =>
        \A f \in ConfidenceFields :
            LET x == fetched.result.extracted_fields
                conf == fetched.result.field_confidence[f]
                c == fetched.corrections
                fast == fetched.fast_result
                llm == fetched.llm_result
            IN  CASE f \in c.keys ->
                        f \in x.keys /\ x[f] = c[f] /\ conf = CorrectionConfidence
                  [] f \notin c.keys /\ f \in fast.fields.keys ->
                        f \in x.keys /\ x[f] = fast.fields[f] /\ conf = fast.confidence
                  [] f \notin c.keys /\ f \notin fast.fields.keys /\ f \in llm.fields.keys ->
                        f \in x.keys /\ x[f] = llm.fields[f] /\ conf = llm.confidence
                  [] OTHER -> f \notin x.keys

\* a field that all three sources have, with three different values
C12_Witness ==
    /\ fetched.kind = "combine"
    /\ "destination" \in fetched.corrections.keys
    /\ "destination" \in fetched.fast_result.fields.keys
    /\ "destination" \in fetched.llm_result.fields.keys
    /\ fetched.fast_result.fields.destination # fetched.corrections.destination
    /\ fetched.result.extracted_fields.destination = "PARIS"

ReturnDateWithoutTripType ==
    /\ fetched.kind = "update"
    /\ "return_date" \in fetched.result.extracted_fields.keys
    /\ HasDate(fetched.result.extracted_fields.return_date)
    /\ "trip_type" \notin fetched.result.extracted_fields.keys

\* C13 as stated: an extracted return_date with no trip type stated makes
\* the state round_trip with trip_type_confirmed = FALSE.
C13_InferredRoundTripUnconfirmed ==
    ReturnDateWithoutTripType
        => /\ travel_state.trip_type = "round_trip"
           /\ ~travel_state.trip_type_confirmed

\* C13 amended: an extracted return_date with no trip type stated makes the
\* state round_trip with trip_type_confirmed = TRUE, so the inferred trip
\* type satisfies has_trip_type_decision.
C13_InferredRoundTripConfirmed ==
    ReturnDateWithoutTripType
        => /\ travel_state.trip_type = "round_trip"
           /\ travel_state.trip_type_confirmed
           /\ has_trip_type_decision(travel_state)

\* the inference overrides an earlier one-way decision
C13_Witness ==
    /\ ReturnDateWithoutTripType
    /\ turn_start.trip_type = "one_way"
    /\ travel_state.trip_type = "round_trip"


\* ------------------------------------------------ single-city fallback
\* the reply puts the question for the origin / for the destination
AsksOrigin(bot) == bot.q \in {"ask_origin", "ask_origin_ctx"}
AsksDestination(bot) == bot.q \in {"greeting", "ask_destination", "ask_destination_ctx"}
BareCity(m) == m.city # NoCity /\ m = [Plain EXCEPT !.city = m.city, !.greeting = m.greeting]
TravelFieldsUnchanged == \A f \in TravelFields : travel_state'[f] = travel_state[f]

DepartureDates ==
    {0, Today - 1, Today, Today + 1, Today + 30, Today + OneYearDays,
     Today + TwoYearsDays, Today + TwoYearsDays + 1}
ReturnOffsets ==
    {0 - OneYearDays - 1, 0 - 1, 0, 1, 2, OneYearDays - 1, OneYearDays,
     OneYearDays + 1}
ReturnDates == {d + k : d \in DepartureDates, k \in ReturnOffsets} \cap Nat

DatePairStates ==
    {[create_initial_state EXCEPT
        !.origin = "NYC", !.destination = "LONDON", !.departure_date = dep,
        !.return_date = ret, !.passengers = 1, !.trip_type = tt,
        !.trip_type_confirmed = conf] :
        dep \in DepartureDates, ret \in ReturnDates,
        tt \in {"one_way", "round_trip"}, conf \in BOOLEAN}

InitDates ==
    /\ travel_state \in DatePairStates
    /\ turn_start = travel_state
    /\ pc = "fn_input"
    /\ session = NoSession
    /\ cache = {}
    /\ now = 0
    /\ redis_available = TRUE
    /\ calls = <<>>
    /\ turn = 0
    /\ step = NoStep
    /\ reply = EmptyBot
    /\ fetched = NoFetch

NextDates == ApplyValidate

SpecDates == InitDates /\ [][NextDates]_vars

\* the validation errors reported for the state that was validated
ReportedErrors ==
    {fetched.validation.validation_errors[i] :
        i \in 1..Len(fetched.validation.validation_errors)}

\* C15: for every pair of calendar dates, a return date on or before the
\* departure date is reported with 'Return date must be after departure
\* date'; a return date after the departure date and at most 365 days later
\* gets neither that error nor the trip-duration error.
C15_ReturnAfterDeparture ==
    fetched.kind = "validate" =>
        LET dep == travel_state.departure_date
            ret == travel_state.return_date
        IN  /\ ret <= dep
                => "Return date must be after departure date" \in ReportedErrors
            /\ (ret > dep /\ ret - dep <= OneYearDays)
                => /\ "Return date must be after departure date" \notin ReportedErrors
                   /\ "Trip duration cannot exceed 1 year" \notin ReportedErrors

C15_Witness ==
    /\ fetched.kind = "validate"
    /\ travel_state.return_date = travel_state.departure_date
    /\ travel_state.departure_date > Today
    /\ "Return date must be after departure date" \in ReportedErrors

\* C16: a round trip without a return date, and a one-way trip with one, each
\* get their trip-type/return-date error, and ready_for_api is false.
C16_TripTypeReturnDateConsistency ==
    fetched.kind = "validate" =>
        /\ (travel_state.trip_type = "round_trip" /\ ~HasDate(travel_state.return_date))
            => /\ "Round trip must have return date" \in ReportedErrors
               /\ ~fetched.validation.ready_for_api
        /\ (travel_state.trip_type = "one_way" /\ HasDate(travel_state.return_date))
            => /\ "One-way trip should not have return date" \in ReportedErrors
               /\ ~fetched.validation.ready_for_api

C16_Witness ==
    /\ fetched.kind = "validate"
    /\ travel_state.trip_type = "round_trip" /\ travel_state.trip_type_confirmed
    /\ travel_state.return_date = NoDate
    /\ fetched.validation.missing_required = <<>>
    /\ fetched.validation.validation_errors = <<"Round trip must have return date">>

\* ------------------------------------------ the message after validation
\* The issues of a validation result, by what the message about them says.
IssuesPresent ==
    LET v == fetched.validation
        errs == {v.validation_errors[i] : i \in 1..Len(v.validation_errors)}
    IN  [val_missing |-> v.missing_required # <<>>,
         err_past |-> errs \cap {"Departure date cannot be in the past",
                                 "Return date cannot be in the past"} # {},
         err_same |-> "Origin and destination cannot be the same" \in errs,
         err_return_date |-> "Round trip must have return date" \in errs,
         err_trip_type |-> "Trip type not confirmed" \in errs,
         err_passenger |-> errs \cap {"Passenger count is required",
                                      "Must have at least 1 passenger",
                                      "Cannot book more than 9 passengers"} # {}]

IssueOrder ==
    <<"val_missing", "err_past", "err_same", "err_return_date", "err_trip_type",
      "err_passenger">>

\* C17: when validation finds several issues, the message of the validation
\* step is about the first issue present in the order missing fields, date
\* in the past, same origin and destination, round trip without return
\* date, trip type not confirmed, passenger count.
C17_MessageFollowsPriorityOrder ==
    (fetched.kind = "validate_node"
        /\ Cardinality({i \in 1..Len(IssueOrder) : IssuesPresent[IssueOrder[i]]}) >= 2)
        => \E i \in 1..Len(IssueOrder) :
              /\ IssuesPresent[IssueOrder[i]]
              /\ \A j \in 1..(i - 1) : ~IssuesPresent[IssueOrder[j]]
              /\ LastBotMessage(travel_state).q = IssueOrder[i]

\* ---------------------------------------------------- search to presenting
\* C18: right after the search step, presenting is next if and only if that
\* search step produced a result set; a failed search is never followed by
\* presenting, whatever search_results an earlier turn left in the state.
C18_PresentIffSearchProducedResults ==
    step.node = "search_flights" => (pc = "present_options" <=> step.success)

\* -------------------------------------------------------------- zero offers
\* this turn's provider call succeeded and its response holds no offer
\* (after a successful call the turn makes no further call)
ZeroOffersThisTurn ==
    /\ \E i \in CallsOfTurn(turn) : calls[i].args.ok
    /\ travel_state.search_results = EmptyPayload

RetriedExceptions == {"ReadTimeout", "ConnectTimeout", "RemoteProtocolError"}
PostOutcomes == {"200", "4xx", "5xx", "ConnectError"} \cup RetriedExceptions

ClientRequests ==
    {[origin |-> o, destination |-> "LON", dep_date |-> d, ret_date |-> r, adults |-> a] :
        o \in {"NYC", "PAR"}, d \in {Today + 5}, r \in {NoDate, Today + 6}, a \in {1, 2}}

\* a retry rule that treats every failure alike
retry_after_any_failure(outcome, attempt) == outcome # "200" /\ attempt = 0

\* lines 119-132: retry once for 5xx and for the three caught exceptions
retry_after(outcome, attempt) ==
    /\ outcome = "5xx" \/ outcome \in RetriedExceptions
    /\ attempt = 0

InitClient ==
    /\ travel_state = create_initial_state
    /\ turn_start = create_initial_state
    /\ pc = "client_call"
    /\ session = NoSession
    /\ cache = {}
    /\ now = 0
    /\ redis_available = TRUE
    /\ calls = <<>>
    /\ turn = 0
    /\ step = NoStep
    /\ reply = EmptyBot
    /\ \E req \in ClientRequests, has_token \in BOOLEAN :
          fetched = [kind |-> "client", req |-> req, has_token |-> has_token,
                     attempt |-> 0, last_err |-> "none", raised |-> "none",
                     returned |-> FALSE, sleeps |-> 0]

\* search_flights up to the loop: _get_token (a request unless a token is
\* held and not about to expire; raise_for_status on its response)
ClientGetToken(token_outcome) ==
    /\ pc = "client_call"
    /\ IF fetched.has_token
       THEN /\ pc' = "client_loop"
            /\ UNCHANGED <<calls, fetched>>
       ELSE /\ calls' = Append(calls, [url |-> "oauth2/token", outcome |-> token_outcome])
            /\ IF token_outcome = "200"
               THEN /\ fetched' = [fetched EXCEPT !.has_token = TRUE]
                    /\ pc' = "client_loop"
               ELSE /\ fetched' = [fetched EXCEPT !.raised = token_outcome]
                    /\ pc' = "client_raised"
    /\ UNCHANGED <<travel_state, session, cache, now, redis_available, turn, turn_start,
                   step, reply>>

\* one pass of the while loop: the POST and what is done with its outcome
ClientPost(outcome) ==
    /\ pc = "client_loop"
    /\ fetched.attempt < 2
    /\ calls' = Append(calls, [url |-> "flight-offers", outcome |-> outcome])
    /\ IF outcome = "200"
       THEN /\ fetched' = [fetched EXCEPT !.returned = TRUE]
            /\ pc' = "client_returned"
       ELSE IF retry_after(outcome, fetched.attempt)
       THEN /\ fetched' = [fetched EXCEPT !.attempt = @ + 1, !.sleeps = @ + 1,
                                          !.last_err = outcome]
            /\ pc' = "client_loop"
       ELSE /\ fetched' = [fetched EXCEPT !.raised = outcome]
            /\ pc' = "client_raised"
    /\ UNCHANGED <<travel_state, session, cache, now, redis_available, turn, turn_start,
                   step, reply>>

NextClient ==
    \/ \E token_outcome \in {"200", "4xx", "5xx"} : ClientGetToken(token_outcome)
    \/ \E outcome \in PostOutcomes : ClientPost(outcome)

SpecClient == InitClient /\ [][NextClient]_vars

\* the attempts of the flight-offers request made so far
Attempts == SelectSeq(calls, LAMBDA c : c.url = "flight-offers")

\* C20: one call of search_flights makes at most two attempts of the search
\* request; there is a second attempt only after a first one that failed
\* with a 5xx status or a timeout/protocol error; a 4xx response is never
\* followed by another attempt; a second attempt that fails is raised to the
\* caller.
C20_AtMostOneRetryForTransientFailure ==
    /\ Len(Attempts) <= 2
    /\ Len(Attempts) = 2 => Attempts[1].outcome \in {"5xx"} \cup RetriedExceptions
    /\ \A i \in 1..Len(Attempts) : Attempts[i].outcome = "4xx" => i = Len(Attempts)
    /\ (Len(Attempts) = 2 /\ Attempts[2].outcome # "200")
        => /\ pc = "client_raised"
           /\ fetched.raised = Attempts[2].outcome

C20_Witness ==
    /\ Len(Attempts) = 2
    /\ Attempts[1].outcome = "5xx" /\ Attempts[2].outcome = "5xx"
    /\ pc = "client_raised"

\* -------------------------------------------------- provider exceptions
\* the replies of SearchFlightsNode._generate_error_response
SearchFailureReplies ==
    {"search_trouble_retry", "search_taking_longer", "search_high_demand",
     "search_no_flights", "search_airport_not_recognized", "search_date_issue",
     "search_error"}

ProviderRaised == \E i \in 1..Len(calls) : ~calls[i].args.ok

\* C21: whatever exception the provider call raises, the search tool answers
\* a failure (success false, cached false); the search node then leaves
\* search_results as it was and replies with one of its fixed messages,
\* never with the text of the exception.
C21_ProviderExceptionBecomesFailure ==
    (SearchInvoked /\ ProviderRaised)
        => /\ ~fetched.result.success /\ ~fetched.result.cached
           /\ fetched.result.results = NoResults
           /\ fetched.kind = "node"
               => /\ travel_state.search_results = turn_start.search_results
                  /\ travel_state.bot_response.q \in SearchFailureReplies
                  /\ travel_state.bot_response.q \notin ProviderExceptions

C21_Witness ==
    /\ fetched.kind = "node" /\ ProviderRaised
    /\ fetched.result.error = "Network timeout"
    /\ travel_state.bot_response.q = "search_taking_longer"
    /\ travel_state.search_results = "p1"

\* ------------------------------------------------------ ambiguous locations
\* IATADb.resolve for the locations of the model: a three-letter code is
\* itself; a city gives the codes of by_city (London and Paris are cities
\* with several airports); anything else gives no code
iata_resolve(location) ==
    LET u == Upper(location)
    IN  CASE u = "LONDON" -> <<"LHR", "LGW", "STN", "LTN">>
          [] u = "PARIS" -> <<"CDG", "ORY">>
          [] u \in {"NYC", "LON"} -> <<u>>
          [] OTHER -> <<>>

Ambiguous(location) == Len(iata_resolve(location)) > 1

\* C22: when the text of origin or destination resolves to more than one
\* location code, no provider call is made (with a code picked for it), and
\* the turn ends with a question to the user.
C22_NoCallForAmbiguousLocation ==
    /\ (step.node = "search_flights" /\ step.called)
        => ~Ambiguous(travel_state.origin) /\ ~Ambiguous(travel_state.destination)
    /\ (pc = "end" /\ HasCity(travel_state.origin) /\ HasCity(travel_state.destination)
            /\ (Ambiguous(travel_state.origin) \/ Ambiguous(travel_state.destination)))
        => step.node = "needs_clarification"

\* ------------------------------------------------- requests to the webhook
\* Two deliveries to whatsapp_webhook share the event loop.  Here session is
\* the whole session store, a function of the store's keys, and fetched
\* holds what each request has so far.  A request's provider behaves the
\* same way each time the request calls it.
UserIds == {"A", "B"}
Deliveries == 1..2
ConcMessages == {3, 4, 7, 8}

\* a store with one key for everybody
session_key_shared(user_id) == <<"session:", "">>

\* RedisSessionStore._get_key
session_key(user_id) == <<"session:", user_id>>

\* a handler that gives the event loop away around its store accesses too
handler_yields_at_io(position) == TRUE

\* whatsapp_webhook is a coroutine and calls handle_message as a plain
\* function: between the read of the session and its write there is no await
handler_yields(position) == position \notin {"read", "invoked"}

\* travel_graph.invoke from a node on: acc is [state, cache, call]
RECURSIVE graph_from(_, _, _, _)
graph_from(node, acc, outcome, t) ==
    CASE node = "collect_info" ->
            LET st == collect_info(acc.state)
            IN  graph_from(should_validate(st), [acc EXCEPT !.state = st], outcome, t)
      [] node = "validate_complete" ->
            LET st == validate_complete(acc.state)
            IN  graph_from(should_search(st), [acc EXCEPT !.state = st], outcome, t)
      [] node = "search_flights" ->
            LET o == search_flights(acc.state, outcome, acc.cache, t)
            IN  graph_from(should_present(o.state),
                           [state |-> o.state, cache |-> o.cache, call |-> acc.call \o o.call],
                           outcome, t)
      [] node = "present_options" -> [acc EXCEPT !.state = present_options(acc.state)]
      [] node = "needs_clarification" ->
            LET st == increment_clarification_attempts(acc.state)
                nxt == should_continue_clarification(st)
            IN  IF nxt = "end" THEN [acc EXCEPT !.state = st]
                ELSE graph_from(nxt, [acc EXCEPT !.state = st], outcome, t)

invoke(state, outcome, cch, t) ==
    graph_from("collect_info", [state |-> state, cache |-> cch, call |-> <<>>], outcome, t)

NewRequest(user_id, message, outcome) ==
    [user_id |-> user_id, message |-> message, outcome |-> outcome, at |-> "received",
     session_data |-> NoSession, state |-> create_initial_state, response |-> EmptyBot]

InitConc ==
    /\ travel_state = create_initial_state
    /\ turn_start = create_initial_state
    /\ pc = "webhook"
    /\ session = [k \in {session_key(u) : u \in UserIds} |-> NoSession]
    /\ cache = {}
    /\ now = 0
    /\ redis_available = TRUE
    /\ calls = <<>>
    /\ turn = 0
    /\ step = NoStep
    /\ reply = EmptyBot
    /\ \E u \in [Deliveries -> UserIds], m \in [Deliveries -> ConcMessages],
          o \in [Deliveries -> {"p1", "fail"}] :
          fetched = [kind |-> "requests",
                     req |-> [r \in Deliveries |-> NewRequest(u[r], m[r], o[r])]]

\* the event loop runs r: no other request is inside a stretch without await
MayRun(r) ==
    \A q \in Deliveries \ {r} : handler_yields(fetched.req[q].at)

\* handle_message lines 52-55: session_store.get and _get_or_create_travel_state
ReadSession(r) ==
    /\ fetched.req[r].at = "received"
    /\ MayRun(r)
    /\ LET session_data == session[session_key(fetched.req[r].user_id)]
       IN  fetched' = [fetched EXCEPT
                !.req[r].session_data = session_data,
                !.req[r].state = get_or_create_travel_state(session_data, fetched.req[r].message),
                !.req[r].at = "read"]
    /\ turn' = turn + 1
    /\ UNCHANGED <<travel_state, pc, session, cache, now, redis_available, calls,
                   turn_start, step, reply>>

\* handle_message line 58: travel_graph.invoke
InvokeGraph(r) ==
    /\ fetched.req[r].at = "read"
    /\ MayRun(r)
    /\ LET o == invoke(fetched.req[r].state, fetched.req[r].outcome, cache, now)
       IN  /\ fetched' = [fetched EXCEPT !.req[r].state = o.state, !.req[r].at = "invoked"]
           /\ cache' = o.cache
           /\ calls' = calls \o Stamp(o.call, r, now)
    /\ UNCHANGED <<travel_state, pc, session, now, redis_available, turn, turn_start,
                   step, reply>>

\* handle_message lines 61-67: _save_travel_state and the reply
SaveSession(r) ==
    /\ fetched.req[r].at = "invoked"
    /\ MayRun(r)
    /\ session' = [session EXCEPT ![session_key(fetched.req[r].user_id)] =
                        [has |-> TRUE, langgraph_state |-> fetched.req[r].state]]
    /\ fetched' = [fetched EXCEPT !.req[r].response = fetched.req[r].state.bot_response,
                                  !.req[r].at = "done"]
    /\ reply' = fetched.req[r].state.bot_response
    /\ UNCHANGED <<travel_state, pc, cache, now, redis_available, calls, turn,
                   turn_start, step>>

NextConc ==
    \/ \E r \in Deliveries : ReadSession(r)
    \/ \E r \in Deliveries : InvokeGraph(r)
    \/ \E r \in Deliveries : SaveSession(r)

SpecConc == InitConc /\ [][NextConc]_vars

\* the state a turn of request r leaves, started from a stored session
TurnResult(session_data, r) ==
    invoke(get_or_create_travel_state(session_data, fetched.req[r].message),
           fetched.req[r].outcome, {}, 0).state

\* the stored state after the turn of a and then the turn of b, one after
\* the other, on an empty store
InOrder(a, b) ==
    TurnResult([has |-> TRUE, langgraph_state |-> TurnResult(NoSession, a)], b)

BothDone == \A r \in Deliveries : fetched.req[r].at = "done"
SameUser == fetched.req[1].user_id = fetched.req[2].user_id

\* C23: two handle_message calls for the same user never interleave: while
\* one is between its read and its write of the session the other is not,
\* and when both are done the stored state is that of the two turns applied
\* in one of the two orders.
C23_SameUserTurnsSequential ==
    /\ SameUser =>
            ~(\A r \in Deliveries : fetched.req[r].at \in {"read", "invoked"})
    /\ (SameUser /\ BothDone) =>
            /\ session[session_key(fetched.req[1].user_id)].has
            /\ session[session_key(fetched.req[1].user_id)].langgraph_state
                    \in {InOrder(1, 2), InOrder(2, 1)}

C23_Witness ==
    /\ SameUser /\ BothDone
    /\ fetched.req[1].message = 3 /\ fetched.req[2].message = 7
    /\ session[session_key(fetched.req[1].user_id)].langgraph_state = InOrder(2, 1)
    /\ InOrder(2, 1) # InOrder(1, 2)
    /\ InOrder(2, 1) # TurnResult(NoSession, 1)

\* ---------------------------------------------------- sessions of two users
\* a finished turn's state and reply are those of the graph run on what the
\* turn read from its own user's session, with its own message
OwnTurnOnly ==
    \A r \in Deliveries :
        fetched.req[r].at = "done"
            => /\ fetched.req[r].state = TurnResult(fetched.req[r].session_data, r)
               /\ fetched.req[r].response =
                      TurnResult(fetched.req[r].session_data, r).bot_response

\* C24: for distinct users, every step of a turn for one user leaves the
\* stored session of the other user as it was, what the turn reads is its
\* own user's stored session, and its resulting state and reply are
\* determined by that session and its own utterance.
C24_SessionsIndependent ==
    /\ []OwnTurnOnly
    /\ [][\A r \in Deliveries :
            fetched'.req[r].at # fetched.req[r].at
              => /\ \A u \in UserIds \ {fetched.req[r].user_id} :
                        session'[session_key(u)] = session[session_key(u)]
                 /\ fetched'.req[r].at = "read"
                        => fetched'.req[r].session_data
                              = session[session_key(fetched.req[r].user_id)]]_vars

C24_Witness ==
    /\ ~SameUser /\ BothDone
    /\ fetched.req[1].message = 3 /\ fetched.req[2].message = 8
    /\ \A r \in Deliveries :
          /\ session[session_key(fetched.req[r].user_id)].langgraph_state
                = TurnResult(NoSession, r)
    /\ TurnResult(NoSession, 1) # TurnResult(NoSession, 2)

\* -------------------------------------------------- two searches at once
\* AmadeusSearchTool.search run by two callers whose steps interleave
\* freely: the cache check, the provider call and the cache write are
\* separate steps, each Redis command is one step.  fetched.last_writer is
\* the search whose cache write came last.
Searches == 1..2
RaceStates ==
    {[create_initial_state EXCEPT
        !.origin = o, !.destination = "LONDON", !.departure_date = Today + 5,
        !.passengers = pax, !.trip_type = "one_way", !.trip_type_confirmed = TRUE,
        !.ready_for_api = TRUE] :
        o \in {"NYC", "nyc", "LON"}, pax \in {1, 2}}

KeyOf(r) == tool_cache_key(extract_search_params(fetched.req[r].state))

InitRace ==
    /\ travel_state = create_initial_state
    /\ turn_start = create_initial_state
    /\ pc = "searching"
    /\ session = NoSession
    /\ cache = {}
    /\ now = 0
    /\ redis_available = TRUE
    /\ calls = <<>>
    /\ turn = 0
    /\ step = NoStep
    /\ reply = EmptyBot
    /\ \E st \in [Searches -> RaceStates] :
          fetched = [kind |-> "race", last_writer |-> 0,
                     req |-> [r \in Searches |->
                                [state |-> st[r], at |-> "check_cache",
                                 result |-> Failure("not_run")]]]

\* search lines 71-75: _check_cache
RaceCheckCache(r) ==
    /\ fetched.req[r].at = "check_cache"
    /\ LET hit == check_cache(cache, extract_search_params(fetched.req[r].state), now)
       IN  fetched' = IF hit # NoResults
                      THEN [fetched EXCEPT !.req[r].at = "returned",
                                           !.req[r].result =
                                               [success |-> TRUE, results |-> hit,
                                                cached |-> TRUE, error |-> "none"]]
                      ELSE [fetched EXCEPT !.req[r].at = "call_provider"]
    /\ UNCHANGED <<travel_state, pc, session, cache, now, redis_available, calls, turn,
                   turn_start, step, reply>>

\* search lines 78-88 and 108-118: amadeus_client.search_flights
RaceCallProvider(r, outcome) ==
    /\ fetched.req[r].at = "call_provider"
    /\ LET params == extract_search_params(fetched.req[r].state)
           call == [origin |-> params.origin, destination |-> params.destination,
                    dep_date |-> params.departure_date, ret_date |-> params.return_date,
                    adults |-> params.passengers, ok |-> ~Raises(outcome)]
       IN  /\ calls' = calls \o Stamp(<<call>>, r, now)
           /\ fetched' = IF Raises(outcome)
                          THEN [fetched EXCEPT !.req[r].at = "returned",
                                               !.req[r].result = Failure(outcome)]
                          ELSE [fetched EXCEPT !.req[r].at = "cache_results",
                                               !.req[r].result =
                                                   [success |-> TRUE, results |-> outcome,
                                                    cached |-> FALSE, error |-> "none"]]
    /\ UNCHANGED <<travel_state, pc, session, cache, now, redis_available, turn,
                   turn_start, step, reply>>

\* search lines 95-106: _cache_results and the return
RaceCacheResults(r) ==
    /\ fetched.req[r].at = "cache_results"
    /\ cache' = cache_results(cache, KeyOf(r), fetched.req[r].result.results, now)
    /\ fetched' = [fetched EXCEPT !.req[r].at = "returned", !.last_writer = r]
    /\ UNCHANGED <<travel_state, pc, session, now, redis_available, calls, turn,
                   turn_start, step, reply>>

NextRace ==
    \/ \E r \in Searches : RaceCheckCache(r)
    \/ \E r \in Searches, outcome \in Payloads \cup {"fail"} : RaceCallProvider(r, outcome)
    \/ \E r \in Searches : RaceCacheResults(r)

SpecRace == InitRace /\ [][NextRace]_vars

SameKey == KeyOf(1) = KeyOf(2)

\* C25: under any interleaving of two searches that miss the cache for the
\* same key, each search makes at most one provider call, and the cache
\* holds for that key at most one entry, which is the whole payload (with
\* its metadata) that the last writer wrote.
C25_ConcurrentMissesLastWriterWins ==
    SameKey =>
        /\ \A r \in Searches : Cardinality(CallsOfTurn(r)) <= 1
        /\ Cardinality({e \in cache : e.key = KeyOf(1)}) <= 1
        /\ fetched.last_writer # 0 =>
                {e.data : e \in {x \in cache : x.key = KeyOf(1)}}
                    = {[results |-> fetched.req[fetched.last_writer].result.results,
                        cached_at |-> now, ttl |-> CacheTtlMinutes]}

C25_Witness ==
    /\ SameKey
    /\ \A r \in Searches : fetched.req[r].at = "returned" /\ fetched.req[r].result.success
    /\ fetched.req[1].state.origin # fetched.req[2].state.origin
    /\ fetched.req[1].result.results # fetched.req[2].result.results
    /\ Len(calls) = 2
    /\ fetched.last_writer = 1

\* ------------------------------------------------------ choosing the offers
\* An offer is [id, price, duration].  Python's sorted is stable: offers
\* with equal keys keep the order of the list.
NoOffer == [id |-> "none", price |-> 0, duration |-> 0]
Offers == [id : {"x", "y"}, price : {500, 650}, duration : {375, 510}]
MaxOffers == 3
OfferLists == UNION {[1..n -> Offers] : n \in 0..MaxOffers}

\* e put into the sorted list srt after every element whose key is not larger
RECURSIVE InsertSorted(_, _, _)
InsertSorted(srt, e, field) ==
    IF srt = <<>> THEN <<e>>
    ELSE IF srt[1][field] <= e[field]
         THEN <<srt[1]>> \o InsertSorted(Tail(srt), e, field)
         ELSE <<e>> \o srt

RECURSIVE SortedBy(_, _)
SortedBy(list, field) ==
    IF list = <<>> THEN <<>>
    ELSE InsertSorted(SortedBy(SubSeq(list, 1, Len(list) - 1), field),
                      list[Len(list)], field)

Take(list, n) == SubSeq(list, 1, IF Len(list) < n THEN Len(list) ELSE n)

\* rank_top
rank_top(options) ==
    IF options = <<>> THEN [fastest |-> NoOffer, cheapest |-> <<>>]
    ELSE LET fastest == SortedBy(options, "duration")[1]
             others == SelectSeq(SortedBy(options, "price"),
                                 LAMBDA op : op.id # fastest.id)
         IN  [fastest |-> fastest, cheapest |-> Take(others, 2)]

\* PresentOptionsNode._transform_amadeus_results, lines 83-101: the cheapest
\* offer of all, and the fastest one when it is not equal to the cheapest
select_for_display(flights) ==
    IF flights = <<>> THEN [fastest |-> NoOffer, cheapest |-> <<>>]
    ELSE LET cheapest == SortedBy(flights, "price")[1]
             fastest == SortedBy(flights, "duration")[1]
         IN  [fastest |-> IF Len(flights) > 1 /\ fastest # cheapest THEN fastest ELSE NoOffer,
              cheapest |-> <<cheapest>>]

InitRank ==
    /\ travel_state = create_initial_state
    /\ turn_start = create_initial_state
    /\ pc = "fn_input"
    /\ session = NoSession
    /\ cache = {}
    /\ now = 0
    /\ redis_available = TRUE
    /\ calls = <<>>
    /\ turn = 0
    /\ step = NoStep
    /\ reply = EmptyBot
    /\ \E options \in OfferLists : fetched = [kind |-> "offers", options |-> options]

ApplyRankTop ==
    /\ pc = "fn_input"
    /\ fetched' = [kind |-> "rank_top", options |-> fetched.options,
                   selection |-> rank_top(fetched.options)]
    /\ pc' = "fn_done"
    /\ UNCHANGED <<travel_state, session, cache, now, redis_available, calls, turn,
                   turn_start, step, reply>>

ApplyPresenterSelection ==
    /\ pc = "fn_input"
    /\ fetched' = [kind |-> "presenter", options |-> fetched.options,
                   selection |-> select_for_display(fetched.options)]
    /\ pc' = "fn_done"
    /\ UNCHANGED <<travel_state, session, cache, now, redis_available, calls, turn,
                   turn_start, step, reply>>

NextRank == ApplyRankTop \/ ApplyPresenterSelection

SpecRank == InitRank /\ [][NextRank]_vars

ElementsOf(list) == {list[i] : i \in 1..Len(list)}

\* the selection the claim describes, for a list of offers
SelectionAsClaimed(options, sel) ==
    IF options = <<>> THEN sel.fastest = NoOffer /\ sel.cheapest = <<>>
    ELSE /\ sel.fastest \in ElementsOf(options)
         /\ \A o \in ElementsOf(options) : sel.fastest.duration <= o.duration
         /\ Len(sel.cheapest) <= 2
         /\ \A i \in 1..Len(sel.cheapest) :
               /\ sel.cheapest[i] \in ElementsOf(options)
               /\ sel.cheapest[i].id # sel.fastest.id
               /\ i > 1 => sel.cheapest[i - 1].price <= sel.cheapest[i].price
               /\ \A o \in ElementsOf(options) \ ElementsOf(SubSeq(sel.cheapest, 1, i - 1)) :
                     o.id # sel.fastest.id => sel.cheapest[i].price <= o.price

\* C26: for every list of offers the selection has as fastest pick an offer
\* of minimum duration and as cheapest list at most two offers in ascending
\* price order, each of minimum price among the offers other than the
\* fastest pick and none with the fastest pick's id; for an empty list the
\* fastest pick is absent and the cheapest list is empty.
C26_SelectionFastestAndCheapest ==
    fetched.kind \in {"rank_top", "presenter"}
        => SelectionAsClaimed(fetched.options, fetched.selection)

\* rank_top alone selects as described
RankTopAsClaimed ==
    fetched.kind = "rank_top" => SelectionAsClaimed(fetched.options, fetched.selection)

\* ------------------------------------------- exceptions inside the handler
\* handle_message with a session store whose get may raise and a graph one
\* of whose nodes may raise.  fetched counts the calls of session_store.set
\* (sets) and remembers their number at the start of the turn (sets_before),
\* the exception of the turn and whether it left handle_message.
MaxFaultTurns == 2
FaultMessages == {3, 4, 7}
HandlerErrors == {"Redis connection failed", "node failed"}
Apology == Bot("technical_difficulties")

\* handle_message without its except clause
on_exception_propagate(error) == [propagated |-> TRUE, reply |-> Bot(error)]

\* the except clause of handle_message
on_exception(error) == [propagated |-> FALSE, reply |-> Apology]

InitFault ==
    /\ travel_state = create_initial_state
    /\ pc = "idle"
    /\ session = NoSession
    /\ cache = {}
    /\ now = 0
    /\ redis_available \in BOOLEAN
    /\ calls = <<>>
    /\ turn = 0
    /\ turn_start = create_initial_state
    /\ step = NoStep
    /\ reply = EmptyBot
    /\ fetched = [kind |-> "handler", sets |-> 0, sets_before |-> 0,
                  error |-> "none", propagated |-> FALSE, stored |-> NoSession]

\* session_store.get and _get_or_create_travel_state.  The in-memory store
\* hands out the stored dict itself, so that setting user_message on the
\* stored state changes the stored session; the Redis store parses a copy.
FaultHandleMessage(message, get_raises) ==
    /\ pc = "idle"
    /\ turn < MaxFaultTurns
    /\ ~fetched.propagated
    /\ turn' = turn + 1
    /\ step' = NoStep
    /\ IF get_raises
       THEN LET e == on_exception("Redis connection failed")
            IN  /\ reply' = e.reply
                /\ fetched' = [fetched EXCEPT !.sets_before = fetched.sets,
                                              !.error = "Redis connection failed",
                                              !.propagated = e.propagated,
                                              !.stored = session]
                /\ pc' = "idle"
                /\ UNCHANGED <<travel_state, turn_start, session>>
       ELSE /\ travel_state' = get_or_create_travel_state(session, message)
            /\ turn_start' = travel_state'
            /\ session' = IF ~redis_available /\ session.has
                          THEN [session EXCEPT !.langgraph_state = travel_state']
                          ELSE session
            /\ fetched' = [fetched EXCEPT !.sets_before = fetched.sets,
                                          !.error = "none",
                                          !.stored = session]
            /\ pc' = "collect_info"
            /\ UNCHANGED reply
    /\ UNCHANGED <<cache, now, redis_available, calls>>

\* the node about to run raises: travel_graph.invoke raises
NodeRaises ==
    /\ pc \in {"collect_info", "validate_complete", "search_flights",
               "present_options", "needs_clarification"}
    /\ fetched.kind = "handler"
    /\ LET e == on_exception("node failed")
       IN  /\ reply' = e.reply
           /\ fetched' = [fetched EXCEPT !.error = "node failed",
                                         !.propagated = e.propagated]
    /\ pc' = "idle"
    /\ step' = NodeStep("raised")
    /\ UNCHANGED <<travel_state, session, cache, now, redis_available, calls, turn,
                   turn_start>>

\* _save_travel_state and the reply, after the graph returned
FaultSaveAndReply ==
    /\ pc = "end"
    /\ fetched.kind = "handler"
    /\ session' = [has |-> TRUE, langgraph_state |-> travel_state]
    /\ fetched' = [fetched EXCEPT !.sets = fetched.sets + 1]
    /\ reply' = travel_state.bot_response
    /\ pc' = "idle"
    /\ UNCHANGED <<travel_state, cache, now, redis_available, calls, turn, turn_start, step>>

NextFault ==
    \/ \E message \in FaultMessages, get_raises \in BOOLEAN :
          FaultHandleMessage(message, get_raises)
    \/ CollectInfo
    \/ ValidateComplete
    \/ \E outcome \in Payloads \cup {"fail"} : SearchFlights(outcome)
    \/ PresentOptions
    \/ NeedsClarification
    \/ NodeRaises
    \/ FaultSaveAndReply

SpecFault == InitFault /\ [][NextFault]_vars

TurnRaised == pc = "idle" /\ fetched.error # "none"

\* C27: when reading the session or a node of the graph raises, the
\* exception does not leave handle_message, the reply is the fixed apology,
\* which holds none of the exception's text, and session_store.set is not
\* called in that turn.
C27_HandlerFaultGivesApologyNoWrite ==
    TurnRaised
        => /\ ~fetched.propagated
           /\ reply = Apology
           /\ reply.q \notin HandlerErrors
           /\ fetched.sets = fetched.sets_before

C27_Witness ==
    /\ TurnRaised
    /\ fetched.error = "node failed"
    /\ session.has
    /\ reply = Apology

\* with the Redis store the stored session is what it was before the turn
FaultLeavesRedisSession ==
    (TurnRaised /\ redis_available) => session = fetched.stored

\* with either store
FaultLeavesStoredSession ==
    TurnRaised => session = fetched.stored

\* --------------------------------------------- the extractor raising
\* CollectInfoNode called on states built by hand, with an extractor that
\* raises or not.
CollectMessages == {1, 3, 4, 8, 9}
CollectStates ==
    {[create_initial_state EXCEPT
        !.origin = o, !.destination = d, !.departure_date = dep,
        !.return_date = ret, !.passengers = pax, !.trip_type = tt,
        !.trip_type_confirmed = conf, !.user_message = m] :
        o \in {NoCity, "PARIS"}, d \in {NoCity, "LONDON"},
        dep \in {NoDate, Today + 3}, ret \in {NoDate, Today + 6},
        pax \in {NoPax, 3}, tt \in TripTypes, conf \in BOOLEAN,
        m \in CollectMessages}

InitCollect ==
    /\ travel_state \in CollectStates
    /\ turn_start = travel_state
    /\ pc = "fn_input"
    /\ session = NoSession
    /\ cache = {}
    /\ now = 0
    /\ redis_available = TRUE
    /\ calls = <<>>
    /\ turn = 0
    /\ step = NoStep
    /\ reply = EmptyBot
    /\ fetched = NoFetch

ApplyCollectInfo(extractor_raises) ==
    /\ pc = "fn_input"
    /\ LET e == extract_information(travel_state, extractor_raises)
       IN  /\ travel_state' = IF e.propagated THEN travel_state
                              ELSE collect_info_after(travel_state, e.result)
           /\ fetched' = [kind |-> "collect_info", extractor_raised |-> extractor_raises,
                          propagated |-> e.propagated]
    /\ pc' = "fn_done"
    /\ UNCHANGED <<session, cache, now, redis_available, calls, turn, turn_start,
                   step, reply>>

NextCollect == \E extractor_raises \in BOOLEAN : ApplyCollectInfo(extractor_raises)

SpecCollect == InitCollect /\ [][NextCollect]_vars

IntentFields ==
    {"origin", "destination", "departure_date", "return_date", "passengers",
     "trip_type", "trip_type_confirmed"}

MutableFields ==
    {"field_confidence", "validation_errors", "conversation_history",
     "missing_fields", "search_results"}
NoAddress == 0

StateObj(v) == [tag |-> "state", v |-> v]
DictObj(v) == [tag |-> "dict", v |-> v]
ListObj(v) == [tag |-> "list", v |-> v]

\* the objects a state object is made of
PartsOf(heap, a) ==
    LET s == heap[a].v
    IN  {a} \cup ({s[f] : f \in MutableFields} \ {NoAddress})
            \cup {heap[s.conversation_history].v[i] :
                     i \in 1..Len(heap[s.conversation_history].v)}

\* copy.copy(current): a new dict holding the same objects
copy_shallow(heap, current) ==
    [heap |-> Append(heap, heap[current]), addr |-> Len(heap) + 1]

\* copy.deepcopy(current): a new dict holding copies of all its parts
deepcopy(heap, current) ==
    LET s == heap[current].v
        n == Len(heap)
        hist == heap[s.conversation_history].v
        k == Len(hist)
        parts == [i \in 1..k |-> heap[hist[i]]]
                   \o << ListObj([i \in 1..k |-> n + i]),
                         heap[s.field_confidence],
                         heap[s.validation_errors],
                         heap[s.missing_fields] >>
                   \o (IF s.search_results = NoAddress THEN <<>>
                       ELSE <<heap[s.search_results]>>)
        copied == [s EXCEPT !.conversation_history = n + k + 1,
                            !.field_confidence = n + k + 2,
                            !.validation_errors = n + k + 3,
                            !.missing_fields = n + k + 4,
                            !.search_results = IF @ = NoAddress THEN NoAddress ELSE n + k + 5]
        h == heap \o parts
    IN  [heap |-> Append(h, StateObj(copied)), addr |-> Len(h) + 1]

\* new_state[field] = value
SetItem(c, field, value) == [c EXCEPT !.heap[c.addr].v[field] = value]

\* new_state[field].append(obj) for a list of objects
AppendObj(c, field, obj) ==
    LET list == c.heap[c.addr].v[field]
        h == Append(c.heap, obj)
    IN  [c EXCEPT !.heap = [h EXCEPT ![list].v = Append(@, Len(h))]]

add_extracted_info_on(heap, current, update) ==
    LET c == deepcopy(heap, current)
        s == c.heap[c.addr].v
    IN  [c EXCEPT !.heap[c.addr].v =
            [s EXCEPT
                !.origin = IF update.origin # NoCity THEN update.origin ELSE @,
                !.destination = IF update.destination # NoCity THEN update.destination ELSE @,
                !.departure_date = IF update.departure_date # NoDate THEN update.departure_date ELSE @,
                !.return_date = IF update.return_date # NoDate THEN update.return_date ELSE @,
                !.passengers = IF update.passengers # NoPax THEN update.passengers ELSE @]]

add_field_confidence_on(heap, current, field, confidence) ==
    LET c == deepcopy(heap, current)
    IN  [c EXCEPT !.heap[c.heap[c.addr].v.field_confidence].v[field] = confidence]

set_trip_type_on(heap, current, trip_type, confirmed) ==
    SetItem(SetItem(deepcopy(heap, current), "trip_type", trip_type),
            "trip_type_confirmed", confirmed)

increment_clarification_attempts_on(heap, current) ==
    LET c == deepcopy(heap, current)
    IN  SetItem(c, "clarification_attempts", c.heap[c.addr].v.clarification_attempts + 1)

\* errors is the address of the caller's list; "errors or []" makes a new
\* list when that one is empty
set_validation_status_on(heap, current, valid, errors) ==
    LET c == SetItem(deepcopy(heap, current), "required_fields_complete", valid)
    IN  IF heap[errors].v # <<>> THEN SetItem(c, "validation_errors", errors)
        ELSE SetItem([c EXCEPT !.heap = Append(@, ListObj(<<>>))],
                     "validation_errors", Len(c.heap) + 1)

set_api_ready_on(heap, current, ready) ==
    SetItem(deepcopy(heap, current), "ready_for_api", ready)

update_conversation_on(heap, current, user_msg, bot_msg) ==
    LET cur == heap[current].v
        hist == heap[cur.conversation_history].v
        prev == Turn(cur.user_message, cur.bot_response)
        addPrev == /\ cur.user_message # NoMessage
                   /\ cur.bot_response # EmptyBot
                   /\ (hist = <<>> \/ heap[hist[Len(hist)]].v # prev)
        c0 == deepcopy(heap, current)
        c1 == IF addPrev THEN AppendObj(c0, "conversation_history", DictObj(prev)) ELSE c0
        c2 == SetItem(SetItem(c1, "user_message", user_msg), "bot_response", bot_msg)
    IN  AppendObj(c2, "conversation_history", DictObj(Turn(user_msg, bot_msg)))

\* missing is the address of the caller's list
set_missing_fields_on(heap, current, missing) ==
    SetItem(deepcopy(heap, current), "missing_fields", missing)

\* results is the address of the caller's dict
set_search_results_on(heap, current, results, cached) ==
    SetItem(SetItem(deepcopy(heap, current), "search_results", results),
            "search_cached", cached)

\* a state object and its parts, laid out from address 1; the state is at
\* the last address
BuildState(history, confidence, user_msg, bot_msg, results) ==
    LET k == Len(history)
        parts == [i \in 1..k |-> DictObj(history[i])]
                   \o << ListObj([i \in 1..k |-> i]), DictObj(confidence),
                         ListObj(<<>>), ListObj(<<>>) >>
                   \o (IF results = NoResults THEN <<>> ELSE <<DictObj(results)>>)
        s == [create_initial_state EXCEPT
                 !.conversation_history = k + 1, !.field_confidence = k + 2,
                 !.validation_errors = k + 3, !.missing_fields = k + 4,
                 !.search_results = IF results = NoResults THEN NoAddress ELSE k + 5,
                 !.user_message = user_msg, !.bot_response = bot_msg]
    IN  Append(parts, StateObj(s))

ReducerHistories ==
    {<<>>, <<Turn(3, Bot("ask_date_ctx"))>>,
     <<Turn(1, Bot("greeting")), Turn(3, Bot("ask_date_ctx"))>>}
ReducerHeaps ==
    {BuildState(h, c, m[1], m[2], r) :
        h \in ReducerHistories,
        c \in {NoConfidence, [NoConfidence EXCEPT !.origin = FastParseConfidence]},
        m \in {<<NoMessage, EmptyBot>>, <<3, Bot("ask_date_ctx")>>, <<7, Bot("ask_date_ctx")>>},
        r \in {NoResults, "p1"}}

\* the calls: reducer and arguments
ReducerCalls ==
    {<<"add_extracted_info", u>> : u \in {NoUpdate, [NoUpdate EXCEPT !.origin = "NYC"]}}
      \cup {<<"add_field_confidence", f>> : f \in {"origin", "destination"}}
      \cup {<<"set_trip_type", "round_trip">>}
      \cup {<<"increment_clarification_attempts", "">>}
      \cup {<<"set_validation_status", e>> : e \in {<<>>, <<"Invalid origin">>}}
      \cup {<<"set_api_ready", "">>}
      \cup {<<"update_conversation", 7>>}
      \cup {<<"set_missing_fields", m>> : m \in {<<>>, <<"origin">>}}
      \cup {<<"set_search_results", p>> : p \in {"p2"}}

\* the reducer called; a list or dict argument is the caller's object,
\* allocated before the call
Reduce(call, heap, current) ==
    LET name == call[1]
        arg == call[2]
        withList == Append(heap, ListObj(arg))
        withDict == Append(heap, DictObj(arg))
    IN  CASE name = "add_extracted_info" -> add_extracted_info_on(heap, current, arg)
          [] name = "add_field_confidence" ->
                add_field_confidence_on(heap, current, arg, ContextConfidence)
          [] name = "set_trip_type" -> set_trip_type_on(heap, current, arg, TRUE)
          [] name = "increment_clarification_attempts" ->
                increment_clarification_attempts_on(heap, current)
          [] name = "set_validation_status" ->
                set_validation_status_on(withList, current, arg = <<>>, Len(withList))
          [] name = "set_api_ready" -> set_api_ready_on(heap, current, TRUE)
          [] name = "update_conversation" ->
                update_conversation_on(heap, current, arg, Bot("ask_origin"))
          [] name = "set_missing_fields" ->
                set_missing_fields_on(withList, current, Len(withList))
          [] OTHER -> set_search_results_on(withDict, current, Len(withDict), FALSE)

InitReducers ==
    /\ travel_state = create_initial_state
    /\ turn_start = create_initial_state
    /\ pc = "fn_input"
    /\ session = NoSession
    /\ cache = {}
    /\ now = 0
    /\ redis_available = TRUE
    /\ calls = <<>>
    /\ turn = 0
    /\ step = NoStep
    /\ reply = EmptyBot
    /\ \E heap \in ReducerHeaps :
          fetched = [kind |-> "objects", heap |-> heap, current |-> Len(heap)]

ApplyReducer(call) ==
    /\ pc = "fn_input"
    /\ LET c == Reduce(call, fetched.heap, fetched.current)
       IN  fetched' = [kind |-> "reduced", reducer |-> call[1], before |-> fetched.heap,
                       heap |-> c.heap, current |-> fetched.current, new_state |-> c.addr]
    /\ pc' = "fn_done"
    /\ UNCHANGED <<travel_state, session, cache, now, redis_available, calls, turn,
                   turn_start, step, reply>>

NextReducers == \E call \in ReducerCalls : ApplyReducer(call)

SpecReducers == InitReducers /\ [][NextReducers]_vars

\* C29: each reducer leaves the state it is given as it was, the nested
\* field_confidence and conversation_history included, and the state it
\* returns is made of objects none of which is part of the state given.
C29_ReducersLeaveInputAndShareNothing ==
    fetched.kind = "reduced"
        => /\ PartsOf(fetched.heap, fetched.current)
                 = PartsOf(fetched.before, fetched.current)
           /\ \A a \in PartsOf(fetched.before, fetched.current) :
                 fetched.heap[a] = fetched.before[a]
           /\ PartsOf(fetched.heap, fetched.new_state)
                 \cap PartsOf(fetched.heap, fetched.current) = {}

\* update_conversation has appended to the history of the new state, whose
\* input had a history and a field_confidence entry
C29_Witness ==
    /\ fetched.kind = "reduced"
    /\ fetched.reducer = "update_conversation"
    /\ LET old == fetched.heap[fetched.current].v
           new == fetched.heap[fetched.new_state].v
       IN  /\ Len(fetched.heap[old.conversation_history].v) = 2
           /\ Len(fetched.heap[new.conversation_history].v) = 3
           /\ new.user_message = 7

\* ------------------------------------------------ the conversation history
IsPrefix(s, t) == Len(s) <= Len(t) /\ SubSeq(t, 1, Len(s)) = s

\* C30: through the node steps and the turns of a conversation the
\* conversation_history of the state is only extended at its end, and so is
\* the one of the stored session: the length never decreases and the
\* entries already there stay, in their order and unaltered.
C30_HistoryOnlyExtended ==
    [][/\ IsPrefix(travel_state.conversation_history,
                   travel_state'.conversation_history)
       /\ IsPrefix(session.langgraph_state.conversation_history,
                   session'.langgraph_state.conversation_history)]_vars

\* a later turn runs on a history of several entries, the stored one
\* among them
C30_Witness ==
    /\ turn >= 2
    /\ pc = "idle"
    /\ Len(turn_start.conversation_history) >= 1
    /\ Len(travel_state.conversation_history) > Len(turn_start.conversation_history) + 1
    /\ session.langgraph_state.conversation_history = travel_state.conversation_history

\* the stored history is only extended when turns raise, too
FaultKeepsStoredHistory ==
    [][IsPrefix(session.langgraph_state.conversation_history,
                session'.langgraph_state.conversation_history)]_vars

\* -------------------------------------------------- the attempts counter
\* C31: from one state to the next, through the node steps and the turns
\* of a conversation, clarification_attempts stays or goes up by exactly
\* one; it never goes down.
C31_AttemptsStepByOne ==
    [][travel_state'.clarification_attempts \in
          {travel_state.clarification_attempts,
           travel_state.clarification_attempts + 1}]_vars

\* the counter was raised in a second turn, on top of the stored count
C31_Witness ==
    /\ turn >= 2
    /\ step.node = "needs_clarification"
    /\ turn_start.clarification_attempts >= 1
    /\ travel_state.clarification_attempts > turn_start.clarification_attempts

\* ------------------------------------------------- results and reset
\* Conversations with reset_user_conversation, on a graph compiled with or
\* without an Amadeus client.  fetched remembers whether a search step has
\* succeeded since the conversation was created or last reset.
ResetMessages == {3, 4, 7}

\* graph.py search_flights_node: SearchFlightsNode with a client; without
\* one, set_search_results(state, {}, False).  The empty dict is a payload
\* without offers.
search_flights_node(state, amadeus_client, outcome, cch, t) ==
    IF amadeus_client THEN search_flights(state, outcome, cch, t)
    ELSE [state |-> set_search_results(state, EmptyPayload, FALSE),
          call |-> <<>>, cache |-> cch, result |-> Failure("no_client")]

InitReset ==
    /\ travel_state = create_initial_state
    /\ pc = "idle"
    /\ session = NoSession
    /\ cache = {}
    /\ now = 0
    /\ redis_available \in BOOLEAN
    /\ calls = <<>>
    /\ turn = 0
    /\ turn_start = create_initial_state
    /\ step = NoStep
    /\ reply = EmptyBot
    /\ \E amadeus_client \in BOOLEAN :
          fetched = [kind |-> "graph", amadeus_client |-> amadeus_client,
                     succeeded |-> FALSE]

SearchFlightsNode(outcome) ==
    /\ pc = "search_flights"
    /\ fetched.kind = "graph"
    /\ LET o == search_flights_node(travel_state, fetched.amadeus_client, outcome,
                                    cache, now)
       IN  /\ travel_state' = o.state
           /\ cache' = o.cache
           /\ calls' = calls \o Stamp(o.call, turn, now)
           /\ step' = [node |-> "search_flights", called |-> o.call # <<>>,
                       success |-> o.result.success, cached |-> o.result.cached]
           /\ fetched' = [fetched EXCEPT !.succeeded = @ \/ o.result.success]
    /\ pc' = should_present(travel_state')
    /\ UNCHANGED <<session, now, redis_available, turn, turn_start, reply>>

\* reset_user_conversation: the stored langgraph_state is deleted
ResetUserConversation ==
    /\ pc = "idle"
    /\ fetched.kind = "graph"
    /\ session.has
    /\ session' = NoSession
    /\ fetched' = [fetched EXCEPT !.succeeded = FALSE]
    /\ step' = NodeStep("reset")
    /\ UNCHANGED <<pc, travel_state, cache, now, redis_available, calls, turn, turn_start,
                   reply>>

NextReset ==
    \/ \E message \in ResetMessages : HandleMessage(message)
    \/ CollectInfo
    \/ ValidateComplete
    \/ \E outcome \in Payloads \cup {"fail"} : SearchFlightsNode(outcome)
    \/ PresentOptions
    \/ NeedsClarification
    \/ SaveAndReply
    \/ ResetUserConversation

SpecReset == InitReset /\ [][NextReset]_vars

ResultsOnlyAfterSuccess ==
    (pc # "idle" \/ session.has) =>
        (travel_state.search_results # NoResults => fetched.succeeded)

TurnAfterResetStartsAfresh ==
    (pc = "idle" /\ pc' = "collect_info" /\ ~session.has)
        => /\ travel_state'.search_results = NoResults
           /\ ~travel_state'.search_cached
           /\ travel_state' = start_conversation(travel_state'.user_message)

\* C32: search_results is non-null only if a search step has succeeded
\* since the conversation was created or last reset, and the turn after a
\* reset starts from the initial state, search_results null and
\* search_cached false.
C32_ResultsOnlyAfterSuccessfulSearch ==
    []ResultsOnlyAfterSuccess /\ [][TurnAfterResetStartsAfresh]_vars

\* with a client
ResultsOnlyAfterSuccessWithClient ==
    [](fetched.amadeus_client => ResultsOnlyAfterSuccess)
        /\ [][TurnAfterResetStartsAfresh]_vars

\* ------------------------------------------- the arguments of the call
\* C33: a search on a state that passed the gate and misses the cache calls
\* the provider once, with the resolved codes of origin and destination,
\* the departure date, the passenger count as adults, and as return date
\* the state's return_date for a round trip and none for a one-way trip.
C33_CallArgumentsFromState ==
    (fetched.kind = "tool" /\ calls # <<>>)
        => /\ Len(calls) = 1
           /\ turn_start.ready_for_api
           /\ LET a == calls[1].args
              IN  /\ a.origin = resolve_airport_code(turn_start.origin)
                  /\ a.destination = resolve_airport_code(turn_start.destination)
                  /\ a.dep_date = turn_start.departure_date
                  /\ a.adults = turn_start.passengers
                  /\ turn_start.trip_type = "round_trip"
                        => a.ret_date = turn_start.return_date
                  /\ turn_start.trip_type = "one_way" => a.ret_date = NoDate

\* a one-way state that still holds a return date
C33_OneWayDropsReturnDate ==
    /\ fetched.kind = "tool" /\ calls # <<>>
    /\ turn_start.trip_type = "one_way"
    /\ turn_start.return_date # NoDate
    /\ turn_start.destination = "LONDON"
    /\ calls[1].args.destination = "LHR"
    /\ calls[1].args.ret_date = NoDate

\* a round trip the validator accepts, to a city whose code is not its name
C33_Witness ==
    /\ fetched.kind = "tool" /\ calls # <<>>
    /\ turn_start.trip_type = "round_trip"
    /\ calls[1].args.ret_date = Today + 6
    /\ turn_start.destination = "LONDON"
    /\ calls[1].args.destination = "LHR"
    /\ validate(turn_start).ready_for_api

\* ------------------------------------------------- one run of the graph
\* travel_graph.invoke on states built by hand, one action per node.
\* fetched counts the node steps of the run and its needs_clarification
\* steps.
MaxStartAttempts == 4
GraphMessages == {1, 3, 4, 8}
GraphStates ==
    {[create_initial_state EXCEPT
        !.origin = o, !.destination = d, !.departure_date = dep,
        !.passengers = pax, !.trip_type = tt, !.trip_type_confirmed = conf,
        !.clarification_attempts = n, !.user_message = m] :
        o \in {NoCity, "PARIS"}, d \in {NoCity, "LONDON"},
        dep \in {NoDate, Today + 3}, pax \in {NoPax, 3},
        tt \in TripTypes, conf \in BOOLEAN,
        n \in 0..MaxStartAttempts, m \in GraphMessages}

InitGraph ==
    /\ travel_state \in GraphStates
    /\ turn_start = travel_state
    /\ pc = "collect_info"
    /\ session = NoSession
    /\ cache = {}
    /\ now = 0
    /\ redis_available = TRUE
    /\ calls = <<>>
    /\ turn = 1
    /\ step = NoStep
    /\ reply = EmptyBot
    /\ fetched = [kind |-> "run", steps |-> 0, clarifications |-> 0]

Counted(node) ==
    [fetched EXCEPT !.steps = @ + 1,
                    !.clarifications = IF node = "needs_clarification" THEN @ + 1 ELSE @]

RunCollectInfo ==
    /\ pc = "collect_info" /\ fetched.kind = "run"
    /\ travel_state' = collect_info(travel_state)
    /\ pc' = should_validate(travel_state')
    /\ step' = NodeStep("collect_info")
    /\ fetched' = Counted("collect_info")
    /\ UNCHANGED <<session, cache, now, redis_available, calls, turn, turn_start, reply>>

RunValidateComplete ==
    /\ pc = "validate_complete" /\ fetched.kind = "run"
    /\ travel_state' = validate_complete(travel_state)
    /\ pc' = should_search(travel_state')
    /\ step' = NodeStep("validate_complete")
    /\ fetched' = Counted("validate_complete")
    /\ UNCHANGED <<session, cache, now, redis_available, calls, turn, turn_start, reply>>

RunSearchFlights(outcome) ==
    /\ pc = "search_flights" /\ fetched.kind = "run"
    /\ LET o == search_flights(travel_state, outcome, cache, now)
       IN  /\ travel_state' = o.state
           /\ cache' = o.cache
           /\ calls' = calls \o Stamp(o.call, turn, now)
           /\ step' = [node |-> "search_flights", called |-> o.call # <<>>,
                       success |-> o.result.success, cached |-> o.result.cached]
    /\ pc' = should_present(travel_state')
    /\ fetched' = Counted("search_flights")
    /\ UNCHANGED <<session, now, redis_available, turn, turn_start, reply>>

RunPresentOptions ==
    /\ pc = "present_options" /\ fetched.kind = "run"
    /\ travel_state' = present_options(travel_state)
    /\ pc' = "end"
    /\ step' = NodeStep("present_options")
    /\ fetched' = Counted("present_options")
    /\ UNCHANGED <<session, cache, now, redis_available, calls, turn, turn_start, reply>>

RunNeedsClarification ==
    /\ pc = "needs_clarification" /\ fetched.kind = "run"
    /\ travel_state' = increment_clarification_attempts(travel_state)
    /\ pc' = should_continue_clarification(travel_state')
    /\ step' = NodeStep("needs_clarification")
    /\ fetched' = Counted("needs_clarification")
    /\ UNCHANGED <<session, cache, now, redis_available, calls, turn, turn_start, reply>>

NextGraph ==
    \/ RunCollectInfo
    \/ RunValidateComplete
    \/ \E outcome \in Payloads \cup {"fail"} : RunSearchFlights(outcome)
    \/ RunPresentOptions
    \/ RunNeedsClarification

SpecGraph == InitGraph /\ [][NextGraph]_vars

GraphNodes ==
    {"collect_info", "validate_complete", "search_flights", "present_options",
     "needs_clarification"}

\* C34: every run of the graph reaches END after finitely many node steps,
\* and it executes the needs_clarification step at most 3 times.  A run
\* that has not reached END is at a node, which then runs; a run makes at
\* most ClarificationCap passes of at most four nodes each.
C34_RunEndsWithinThreeClarifications ==
    /\ fetched.clarifications <= 3
    /\ fetched.steps <= 4 * ClarificationCap
    /\ pc \in GraphNodes \cup {"end"}
    /\ pc = "end" => fetched.steps >= 2

\* a run that went three times through needs_clarification and ended
C34_Witness ==
    /\ pc = "end"
    /\ fetched.clarifications = 3
    /\ fetched.steps > 6

\* ------------------------------------------------- the order of the steps
\* C35: in a run of the graph the search_flights step comes right after a
\* validate_complete step of the same run that left ready_for_api true, and
\* the validate_complete step right after a collect_info step that left
\* origin, destination and departure_date present.
C35_SearchAfterValidateAfterCollect ==
    /\ pc = "search_flights"
          => step.node = "validate_complete" /\ travel_state.ready_for_api
    /\ step.node = "search_flights" => travel_state.ready_for_api
    /\ pc = "validate_complete"
          => step.node = "collect_info" /\ has_required_fields(travel_state)

\* the search is about to run in a later turn of a conversation
C35_Witness ==
    /\ turn >= 2
    /\ pc = "search_flights"
    /\ ~turn_start.ready_for_api
    /\ travel_state.clarification_attempts >= 1

\* ---------------------------------------------------- who sets the flag
\* C36: ready_for_api changes only in the validate_complete step; the
\* collect_info, search_flights, present_options and needs_clarification
\* steps and the handler's loading of a stored state for a new utterance
\* leave it as it is.
C36_OnlyValidateChangesReady ==
    [][travel_state'.ready_for_api # travel_state.ready_for_api
          => pc = "validate_complete"]_vars

\* a stored state with the flag set was loaded for a new utterance, and
\* collect_info changed the destination under the flag
C36_Witness ==
    /\ turn >= 2
    /\ step.node = "collect_info"
    /\ turn_start.ready_for_api
    /\ travel_state.ready_for_api
    /\ travel_state.destination # turn_start.destination

C38_EntriesPairUtteranceWithItsReply ==
    [][\A i \in (Len(travel_state.conversation_history) + 1)
                  ..Len(travel_state'.conversation_history) :
          travel_state'.conversation_history[i]
              = Turn(travel_state'.user_message, travel_state'.bot_response)]_vars

\* ------------------------------------------------- RedisSessionStore
\* Python values that session dictionaries are built from, and the JSON text
\* json.dumps makes of them. A JSON array is written for a list and for a
\* tuple alike and is read back as a list.
PyNone == [py |-> "None"]

PyStr(s) == [py |-> "str", s |-> s]

PyInt(n) == [py |-> "int", n |-> n]

PyList(items) == [py |-> "list", items |-> items]

PyTuple(elems) == [py |-> "tuple", elems |-> elems]

PyDict(entries) == [py |-> "dict", entries |-> entries]

RECURSIVE json_dumps(_)
json_dumps(value) ==
    CASE value.py = "None" -> [js |-> "null"]
      [] value.py = "str" -> [js |-> "string", chars |-> value.s]
      [] value.py = "int" -> [js |-> "number", digits |-> value.n]
      [] value.py = "list" ->
            [js |-> "array",
             values |-> [i \in 1..Len(value.items) |-> json_dumps(value.items[i])]]
      [] value.py = "tuple" ->
            [js |-> "array",
             values |-> [i \in 1..Len(value.elems) |-> json_dumps(value.elems[i])]]
      [] value.py = "dict" ->
            [js |-> "object",
             members |-> [k \in DOMAIN value.entries |-> json_dumps(value.entries[k])]]

RECURSIVE json_loads(_)
json_loads(text) ==
    CASE text.js = "null" -> PyNone
      [] text.js = "string" -> PyStr(text.chars)
      [] text.js = "number" -> PyInt(text.digits)
      [] text.js = "array" ->
            PyList([i \in 1..Len(text.values) |-> json_loads(text.values[i])])
      [] text.js = "object" ->
            PyDict([k \in DOMAIN text.members |-> json_loads(text.members[k])])

\* session dictionaries the handlers store: the empty one of a new user, the
\* one reset_user_conversation leaves, and one with a graph state in it
EmptySessionData == PyDict(<<>>)

ResetSessionData == PyDict([info |-> PyDict(<<>>)])

TurnSessionData ==
    PyDict([info |-> PyDict([origin |-> PyStr("NYC"), return_date |-> PyNone]),
            langgraph_state |->
                PyDict([origin |-> PyStr("NYC"),
                        return_date |-> PyNone,
                        passengers |-> PyInt(2),
                        conversation_history |->
                            PyList(<<PyDict([user |-> PyStr("hello"),
                                             bot |-> PyStr("greeting")])>>)]),
            last_message |-> PyStr("hello")])

StoreData == {EmptySessionData, ResetSessionData, TurnSessionData}

StoreUsers == {"u1", "u2"}

\* redis_store.py _get_key
get_key(user_id) == <<"session:", user_id>>

\* the Redis server: live keys are those whose time to live has not run out
RedisGet(server, key, t) ==
    IF \E e \in server : e.key = key /\ t < e.expires
    THEN (CHOOSE e \in server : e.key = key /\ t < e.expires).text
    ELSE [js |-> "absent"]

RedisSetex(server, key, ttl, text, t) ==
    {e \in server : e.key # key} \cup {[key |-> key, text |-> text, expires |-> t + ttl]}

RedisDelete(server, key) == {e \in server : e.key # key}

DictGet(dict, user_id) ==
    IF \E e \in dict : e.user_id = user_id
    THEN (CHOOSE e \in dict : e.user_id = user_id).data
    ELSE PyNone

DictSet(dict, user_id, data) ==
    {e \in dict : e.user_id # user_id} \cup {[user_id |-> user_id, data |-> data]}

\* redis_store.py __init__: the client is kept when the ping answers; when it
\* raises ConnectionError the client is None and _fallback_store is created.
\* has_fallback_store says whether the attribute exists.
RedisSessionStore(ping_answers, ttl_seconds) ==
    [client |-> IF ping_answers THEN "redis" ELSE "None",
     has_fallback_store |-> ~ping_answers,
     fallback_store |-> {},
     ttl_seconds |-> ttl_seconds]

\* redis_store.py get: the value returned
store_get(store, server, user_id, redis_raises, t) ==
    IF store.client = "None" THEN DictGet(store.fallback_store, user_id)
    ELSE IF redis_raises THEN PyNone
    ELSE LET data == RedisGet(server, get_key(user_id), t)
         IN  IF data.js # "absent" THEN json_loads(data) ELSE PyNone

\* redis_store.py set: the store, the server and how the call ended. The
\* except clause assigns into self._fallback_store, which raises
\* AttributeError when the constructor never created it.
store_set(store, server, user_id, session_data, redis_raises, t) ==
    IF store.client = "None"
    THEN [store |-> [store EXCEPT !.fallback_store = DictSet(@, user_id, session_data)],
          server |-> server, outcome |-> "returned"]
    ELSE IF ~redis_raises
    THEN [store |-> store,
          server |-> RedisSetex(server, get_key(user_id), store.ttl_seconds,
                                json_dumps(session_data), t),
          outcome |-> "returned"]
    ELSE IF store.has_fallback_store
    THEN [store |-> [store EXCEPT !.fallback_store = DictSet(@, user_id, session_data)],
          server |-> server, outcome |-> "returned"]
    ELSE [store |-> store, server |-> server, outcome |-> "AttributeError"]

NoStoreCall ==
    [op |-> "none", user_id |-> "u1", data |-> PyNone, redis_raises |-> FALSE,
     outcome |-> "returned", result |-> PyNone]

InitStore ==
    /\ travel_state = create_initial_state
    /\ turn_start = create_initial_state
    /\ pc = "store"
    /\ session = NoSession
    /\ cache = {}
    /\ now = 0
    /\ redis_available \in BOOLEAN
    /\ calls = <<>>
    /\ turn = 0
    /\ step = NoStep
    /\ reply = EmptyBot
    /\ \E ttl_seconds \in {1, 2} :
          fetched = [kind |-> "store",
                     store |-> RedisSessionStore(redis_available, ttl_seconds),
                     server |-> {},
                     written |-> {},
                     last |-> NoStoreCall]

\* written remembers, per user, the data of the last set that returned
\* normally and when; clear forgets it
StoreSet(user_id, session_data, redis_raises) ==
    /\ pc = "store"
    /\ LET r == store_set(fetched.store, fetched.server, user_id, session_data,
                          redis_raises, now)
       IN  fetched' = [fetched EXCEPT
               !.store = r.store,
               !.server = r.server,
               !.written = IF r.outcome = "returned"
                           THEN {w \in @ : w.user_id # user_id}
                                \cup {[user_id |-> user_id, data |-> session_data,
                                       at |-> now]}
                           ELSE @,
               !.last = [op |-> "set", user_id |-> user_id, data |-> session_data,
                         redis_raises |-> redis_raises /\ fetched.store.client = "redis",
                         outcome |-> r.outcome, result |-> PyNone]]
    /\ UNCHANGED <<travel_state, pc, session, cache, now, redis_available, calls, turn,
                   turn_start, step, reply>>

StoreGet(user_id, redis_raises) ==
    /\ pc = "store"
    /\ fetched' = [fetched EXCEPT
           !.last = [op |-> "get", user_id |-> user_id, data |-> PyNone,
                     redis_raises |-> redis_raises /\ fetched.store.client = "redis",
                     outcome |-> "returned",
                     result |-> store_get(fetched.store, fetched.server, user_id,
                                          redis_raises, now)]]
    /\ UNCHANGED <<travel_state, pc, session, cache, now, redis_available, calls, turn,
                   turn_start, step, reply>>

\* redis_store.py clear
StoreClear(user_id) ==
    /\ pc = "store"
    /\ fetched' = [fetched EXCEPT
           !.store.fallback_store =
               IF fetched.store.client = "None"
               THEN {e \in @ : e.user_id # user_id} ELSE @,
           !.server = IF fetched.store.client = "None" THEN @
                      ELSE RedisDelete(@, get_key(user_id)),
           !.written = {w \in @ : w.user_id # user_id},
           !.last = [op |-> "clear", user_id |-> user_id, data |-> PyNone,
                     redis_raises |-> FALSE, outcome |-> "returned", result |-> PyNone]]
    /\ UNCHANGED <<travel_state, pc, session, cache, now, redis_available, calls, turn,
                   turn_start, step, reply>>

StoreTick ==
    /\ pc = "store"
    /\ now < MaxTicks
    /\ now' = now + 1
    /\ fetched' = [fetched EXCEPT !.last = NoStoreCall]
    /\ UNCHANGED <<travel_state, pc, session, cache, redis_available, calls, turn,
                   turn_start, step, reply>>

NextStore ==
    \/ \E user_id \in StoreUsers, session_data \in StoreData, redis_raises \in BOOLEAN :
          StoreSet(user_id, session_data, redis_raises)
    \/ \E user_id \in StoreUsers, redis_raises \in BOOLEAN : StoreGet(user_id, redis_raises)
    \/ \E user_id \in StoreUsers : StoreClear(user_id)
    \/ StoreTick

SpecStore == InitStore /\ [][NextStore]_vars

\* the data a get of this user should return: set, not cleared, not expired
LiveWrites(user_id) ==
    {w \in fetched.written :
        /\ w.user_id = user_id
        /\ fetched.store.client = "redis" => now < w.at + fetched.store.ttl_seconds}

\* a get that Redis answered returns what the last normal set stored
GetReturnsWhatWasSet ==
    (fetched.last.op = "get" /\ ~fetched.last.redis_raises)
        => \A w \in LiveWrites(fetched.last.user_id) : fetched.last.result = w.data

\* a set returns normally, also when the Redis write raised
SetReturnsNormally ==
    fetched.last.op = "set" => fetched.last.outcome = "returned"

\* C39: in each mode of RedisSessionStore (Redis available, Redis unavailable
\* at construction, Redis raising on the write) a set returns normally and a
\* following get of the same user returns data equal to what was set, until
\* the TTL runs out or the entry is cleared.
C39_SetThenGetInEveryMode == SetReturnsNormally /\ GetReturnsWhatWasSet

\* the part that holds: whenever a set did return normally, the following get
\* returns its data (a set whose Redis write raised never returns normally)
C39_GetAfterNormalSet == GetReturnsWhatWasSet

C39_WriteErrorWitness ==
    /\ fetched.last.op = "set"
    /\ fetched.last.redis_raises
    /\ fetched.last.outcome = "AttributeError"

\* ------------------------------------------------- RateLimiter
\* The in-process rate limiter: one deque of request times per key, made
\* with deque(maxlen=100). Time is in whole seconds.
DequeMaxLen == 100

MaxLimiterTicks == 2

MaxOtherCalls == 1

LimiterKeys == {"k1", "k2"}

\* deque.append on a deque with maxlen: a full deque drops its leftmost item
deque_append(request_times, t) ==
    IF Len(request_times) >= DequeMaxLen
    THEN Append(Tail(request_times), t)
    ELSE Append(request_times, t)

\* the while loop of _check_local_rate_limit
RECURSIVE drop_old(_, _)
drop_old(request_times, cutoff) ==
    IF request_times # <<>> /\ Head(request_times) < cutoff
    THEN drop_old(Tail(request_times), cutoff)
    ELSE request_times

\* resilience.py _check_local_rate_limit: the deque of the key afterwards and
\* the answer
check_local_rate_limit(request_times, max_requests, window_seconds, t) ==
    LET kept == drop_old(request_times, t - window_seconds)
    IN  IF Len(kept) < max_requests
        THEN [request_times |-> deque_append(kept, t), allowed |-> TRUE]
        ELSE [request_times |-> kept, allowed |-> FALSE]

\* allowed[key][t] counts the calls of the key answered allowed at second t;
\* asked[key] counts its calls
InitLimiter ==
    /\ travel_state = create_initial_state
    /\ turn_start = create_initial_state
    /\ pc = "limiter"
    /\ session = NoSession
    /\ cache = {}
    /\ now = 0
    /\ redis_available = FALSE
    /\ calls = <<>>
    /\ turn = 0
    /\ step = NoStep
    /\ reply = EmptyBot
    /\ \E max_requests \in {1, 2, DequeMaxLen + 1}, window_seconds \in {1, 2} :
          fetched = [kind |-> "limiter",
                     max_requests |-> max_requests,
                     window_seconds |-> window_seconds,
                     local_cache |-> [key \in LimiterKeys |-> <<>>],
                     allowed |-> [key \in LimiterKeys |-> [t \in 0..MaxLimiterTicks |-> 0]],
                     asked |-> [key \in LimiterKeys |-> 0],
                     last |-> [key |-> "k1", allowed |-> FALSE]]

CallsOfKey(key) == IF key = "k1" THEN fetched.max_requests + 1 ELSE MaxOtherCalls

\* resilience.py check_rate_limit without a Redis client
CheckRateLimit(key) ==
    /\ pc = "limiter"
    /\ fetched.asked[key] < CallsOfKey(key)
    /\ LET r == check_local_rate_limit(fetched.local_cache[key], fetched.max_requests,
                                       fetched.window_seconds, now)
       IN  fetched' = [fetched EXCEPT
               !.local_cache[key] = r.request_times,
               !.allowed[key][now] = IF r.allowed THEN @ + 1 ELSE @,
               !.asked[key] = @ + 1,
               !.last = [key |-> key, allowed |-> r.allowed]]
    /\ UNCHANGED <<travel_state, pc, session, cache, now, redis_available, calls, turn,
                   turn_start, step, reply>>

LimiterTick ==
    /\ pc = "limiter"
    /\ now < MaxLimiterTicks
    /\ now' = now + 1
    /\ UNCHANGED <<travel_state, pc, session, cache, redis_available, calls, turn,
                   turn_start, step, reply, fetched>>

NextLimiter == (\E key \in LimiterKeys : CheckRateLimit(key)) \/ LimiterTick

SpecLimiter == InitLimiter /\ [][NextLimiter]_vars

RECURSIVE SumOver(_, _)
SumOver(f, S) ==
    IF S = {} THEN 0
    ELSE LET x == CHOOSE y \in S : TRUE IN f[x] + SumOver(f, S \ {x})

\* the calls of the key answered allowed in the seconds from..from + window_seconds
AllowedWithin(key, from) ==
    SumOver(fetched.allowed[key],
            {t \in 0..MaxLimiterTicks : from <= t /\ t <= from + fetched.window_seconds})

\* C40: for every key, max_requests and window_seconds, at most max_requests
\* calls of the key are answered allowed within any interval of
\* window_seconds.
C40_AtMostMaxRequestsPerWindow ==
    \A key \in LimiterKeys, from \in 0..MaxLimiterTicks :
        AllowedWithin(key, from) <= fetched.max_requests

\* the part that holds: the limit is kept when it is no more than the
\* deque's maxlen
C40_LimitKeptUpToDequeMaxLen ==
    fetched.max_requests <= DequeMaxLen => C40_AtMostMaxRequestsPerWindow

\* a call refused because the window is full, and a later one allowed again
C40_RefusedWitness ==
    /\ ~fetched.last.allowed
    /\ fetched.asked[fetched.last.key] > fetched.max_requests

C40_AllowedAgainWitness ==
    /\ fetched.max_requests = 1
    /\ fetched.last.allowed
    /\ fetched.asked["k1"] = 2
    /\ fetched.allowed["k1"][0] = 1

====
